---- MODULE Spec2Model ----
(***************************************************************************)
(* Rolling-deployment orchestrator of gofordevopsclass:                    *)
(*   automation_the_hard_way/workflow/workflow/workflow.go  (Workflow)     *)
(*   automation_the_hard_way/workflow/actions/actions.go    (Actions)      *)
(* Spec       : Workflow.Run, goroutine by goroutine.                      *)
(* SpecAction : repeated Actions.Run on one Actions value, stage by stage. *)
(***************************************************************************)
EXTENDS Integers, Sequences, FiniteSets, TLC

VARIABLES
    config,     \* Workflow.config: Concurrency, CanaryNum, MaxFailures, Backends
    ph,         \* checkLBState's local ph, the PoolHealth answer (NoPH outside)
    pc,         \* position of the goroutine executing Workflow.Run
    i,          \* loop variable i of Run's two loops (0-based, as in the code)
    limit,      \* number of values buffered in the channel "limit"
    wg,         \* counter of the sync.WaitGroup "wg"
    failures,   \* Workflow.failures (atomic int32)
    endState,   \* Workflow.endState
    ret,        \* what Run returned: "none" (not yet), "nil" or "err"
    actions,    \* Workflow.actions: index -> [failedState, err]
    worker,     \* position of the bulk goroutine started for actions[i]
    inRun,      \* index -> number of Actions.Run calls in progress on actions[i]
    runs,       \* index -> number of Actions.Run calls made so far on actions[i]
    slept,      \* number of completed post-canary sleeps
    act,        \* SpecAction: the Actions value [failedState, err]
    started,    \* SpecAction: its field started
    apc,        \* SpecAction: position inside Actions.Run
    fn,         \* SpecAction: Run's local fn
    ctxDone,    \* SpecAction: ctx.Err() != nil for the ctx of the current Run
    calls,      \* SpecAction: stage -> number of invocations so far
    runNo,      \* SpecAction: number of Run calls made so far
    lastRet,    \* SpecAction: what the last Run returned
    failLog,    \* SpecAction: per Run so far, where it failed (Nil: it did not)
    ws,         \* retryFailed: ws.failures, as indexes of w.actions
    ri,         \* retryFailed: its loop variable i, shared with the goroutines
    rwg,        \* retryFailed: counter of its sync.WaitGroup
    rworker,    \* retryFailed: position of the goroutine of iteration s
    rtarget,    \* retryFailed: the index into ws.failures that goroutine read
    retries,    \* number of retryFailed calls that returned
    cpc,        \* main: position in the CLI's main
    pass,       \* main: loop variable i of the retry loop
    exitCode,   \* main: the code passed to os.Exit (-1: not exited)
    vin,        \* Validate: the Config under validation
    vout,       \* Validate: "none", "nil" or "err"
    healthy,    \* SpecAction: reachable saw "ok" since the last runBinary
    kpc,        \* jobKill: position inside jobKill and waitForDeath
    kproc,      \* jobKill: the remote process: "running" or "gone"
    ksigs,      \* jobKill: the signals sent so far by killPIDs
    ktimer,     \* jobKill: the timer of the current waitForDeath has fired
    kpolls,     \* jobKill: findPIDs calls made by the current waitForDeath
    kret,       \* jobKill: "none", or what it returned: "cp", "err", "panic"
    kseen,      \* jobKill: what the lookups showed so far: "none", "nopid", "pid",
                \*          "missing", "broken", "dead1", "alive1", "dead2", "alive2"
    hpc,        \* reachable: position inside reachable
    hctx,       \* reachable: its ctx (1 minute, child of Run's) is done
    hpolls,     \* reachable: HTTP requests made so far
    hlast,      \* reachable: outcome of the last request
    hret,       \* reachable: "none", or what it returned: "addBackend", "err"
    npc,        \* New: position inside New and buildActions
    nin,        \* New: config.Backends, the addresses as written
    nacts,      \* New: w.actions of the Workflow under construction
    nret        \* New: "none", or what it returned: "wf", "err"

wfVars == <<config, ph, pc, i, limit, wg, failures, endState, ret, actions,
            worker, inRun, runs, slept>>
actVars == <<act, started, apc, fn, ctxDone, calls, runNo, lastRet, failLog,
             healthy>>
retryVars == <<ws, ri, rwg, rworker, rtarget, retries>>
cliVars == <<cpc, pass, exitCode>>
valVars == <<vin, vout>>
killVars == <<kpc, kproc, ksigs, ktimer, kpolls, kret, kseen>>
reachVars == <<hpc, hctx, hpolls, hlast, hret>>
newVars == <<npc, nin, nacts, nret>>
vars == <<config, ph, pc, i, limit, wg, failures, endState, ret, actions,
          worker, inRun, runs, slept,
          act, started, apc, fn, ctxDone, calls, runNo, lastRet, failLog,
          ws, ri, rwg, rworker, rtarget, retries,
          cpc, pass, exitCode, vin, vout, healthy,
          kpc, kproc, ksigs, ktimer, kpolls, kret, kseen,
          hpc, hctx, hpolls, hlast, hret,
          npc, nin, nacts, nret>>

----------------------------------------------------------------------------
(* Bounds of the model *)
MaxBackends == 4
MaxConcurrency == 2
MaxCanaryNum == 2
MaxMaxFailures == 1
MaxRuns == 3
MaxRetryBackends == 2
MaxRetryCanaryNum == 1
MaxRetryFailures == 2
MaxRetries == 1
MaxRetryConcurrency == 1
MaxCLIBackends == 2
MaxCLIFailures == 1
MaxValBackends == 1
MaxLiveBackends == 2
MaxLiveConcurrency == 2
MaxLiveCanaryNum == 1
MaxLiveFailures == 0
MaxNewBackends == 2
MaxCheckedBackends == 2
MaxCheckedConcurrency == 1
MaxCheckedCanaryNum == 1
MaxCheckedFailures == 0
MaxPolls == 3

----------------------------------------------------------------------------
(* EndState, workflow.go:24-37 *)
ESUnknown == 0
ESSuccess == 1
ESPreconditionFailure == 2
ESCanaryFailure == 3
ESMaxFailures == 4

(* the nil StateFn / nil error *)
Nil == "nil"

----------------------------------------------------------------------------
(* Actions (actions.go) *)

(* the errors a Run can record: ctx.Err(), or any other error *)
CtxErr == "ctxErr"
Err == "err"

(* the value built by actions.New, actions.go:61-66 *)
NewActions == [failedState |-> Nil, err |-> Nil]

(* What a StateFn returned: next and err are its two results; ran lists the
   stages it went through and failed names the one that produced err. *)
Ret(next, err, ran, failed) ==
    [next |-> next, err |-> err, ran |-> ran, failed |-> failed]

(* What each StateFn can return, over every outcome of the calls it makes to
   the load balancer, the remote end and the health endpoint. *)
(* actions.go:117-124 *)
rmBackend ==
    { Ret("jobKill", Nil, <<"rmBackend">>, Nil),
      Ret(Nil, Err, <<"rmBackend">>, "rmBackend") }
(* actions.go:126-150 *)
jobKill ==
    { Ret("cp", Nil, <<"jobKill">>, Nil),
      Ret(Nil, Err, <<"jobKill">>, "jobKill") }
(* actions.go:152-157 *)
cp ==
    { Ret("jobStart", Nil, <<"cp">>, Nil),
      Ret(Nil, Err, <<"cp">>, "cp") }
(* actions.go:166-207; no StateFn of Run's loop: jobStart calls it *)
reachable ==
    { Ret("addBackend", Nil, <<"reachable">>, Nil),
      Ret(Nil, Err, <<"reachable">>, "reachable") }
(* actions.go:159-164: runBinary fails, or the result of a.reachable(ctx) *)
jobStart ==
    { Ret(Nil, Err, <<"jobStart">>, "jobStart") }
    \cup { [r EXCEPT !.ran = <<"jobStart">> \o @] : r \in reachable }
(* actions.go:209-216 *)
addBackend ==
    { Ret(Nil, Nil, <<"addBackend">>, Nil),
      Ret(Nil, Err, <<"addBackend">>, "addBackend") }

StateFns == {"rmBackend", "jobKill", "cp", "jobStart", "addBackend"}
Stages == StateFns \cup {"reachable"}

Handler(f) ==
    CASE f = "rmBackend" -> rmBackend
      [] f = "jobKill" -> jobKill
      [] f = "cp" -> cp
      [] f = "jobStart" -> jobStart
      [] f = "addBackend" -> addBackend

(* mutant: a Run without a failedState starts at the second StateFn *)
StartFn_Skip(a) == IF a.failedState # Nil THEN a.failedState ELSE "jobKill"

(* actions.go:94-97: the StateFn a Run starts with *)
StartFn(a) == IF a.failedState # Nil THEN a.failedState ELSE "rmBackend"

(* actions.go:105-110: the bookkeeping after fn, err = fn(ctx) returned an
   error; r is what the handler returned, and fn has been overwritten by it *)
RecordFailure(a, r) == [a EXCEPT !.failedState = r.next, !.err = r.err]

(* actions.go:101-104: ctx.Err() != nil at the top of the loop *)
RecordCtxErr(a) == [a EXCEPT !.err = CtxErr]

(* actions.go:80-91: os.Open or ssh.Dial failed *)
RecordSetupErr(a) == [a EXCEPT !.err = Err]

(* actions.go:347-353: "" or the name of failedState *)
failure(a) == IF a.failedState = Nil THEN "" ELSE a.failedState

(* actions.go:100-114: every <<Actions value, returned error>> the loop can
   end with when it is entered with fn = f *)
RECURSIVE RunLoop(_, _)
RunLoop(a, f) ==
    {<<RecordCtxErr(a), CtxErr>>}
    \cup UNION { IF r.err # Nil THEN {<<RecordFailure(a, r), r.err>>}
                 ELSE IF r.next = Nil THEN {<<a, Nil>>}
                 ELSE RunLoop(a, r.next) : r \in Handler(f) }

(* actions.go:79-115: every <<Actions value, returned error>> of one Run *)
RunResults(a) ==
    {<<RecordSetupErr(a), Err>>} \cup RunLoop(a, StartFn(a))

----------------------------------------------------------------------------
(* Workflow (workflow.go) *)

(* len(w.actions), one per backend: workflow.go:193-202 *)
NumActions == Len(config.Backends)
Indexes == 0 .. (NumActions - 1)

(* PoolHealth answers.  A backend reported by the load balancer is an
   IPBackend with an address, or some other kind of backend. *)
NoPH == [err |-> FALSE, status |-> "none", backends |-> <<>>]
IPs(n) == 1 .. (n + 1)
Reported(n) ==
    [1 .. n -> [ip : IPs(n), isIP : {TRUE}]]
    \cup { [k \in 1 .. n |-> [ip |-> k, isIP |-> (k # j)]] : j \in 1 .. n }
    \cup { [k \in 1 .. (n - 1) |-> [ip |-> k, isIP |-> TRUE]],
           [k \in 1 .. (n + 1) |-> [ip |-> k, isIP |-> TRUE]] }
PoolHealthAnswers(n) ==
    { [err |-> TRUE, status |-> "none", backends |-> <<>>],
      [err |-> FALSE, status |-> "PS_EMPTY", backends |-> <<>>],
      [err |-> FALSE, status |-> "PS_OTHER", backends |-> <<>>] }
    \cup { [err |-> FALSE, status |-> "PS_FULL", backends |-> b] : b \in Reported(n) }

(* mutant: an empty pool passes whatever the configuration says *)
checkLBState_EmptyOk(backends, h) ==
    IF h.err THEN TRUE
    ELSE CASE h.status = "PS_EMPTY" -> FALSE
           [] h.status = "PS_FULL" ->
                IF Len(backends) # Len(h.backends) THEN TRUE
                ELSE LET m == { backends[k] : k \in 1 .. Len(backends) }
                     IN  \E k \in 1 .. Len(h.backends) :
                            \/ ~ h.backends[k].isIP
                            \/ h.backends[k].ip \notin m
           [] OTHER -> TRUE

(* workflow.go:152-190: TRUE iff checkLBState returns an error *)
checkLBState(backends, h) ==
    IF h.err THEN TRUE
    ELSE CASE h.status = "PS_EMPTY" -> Len(backends) # 0
           [] h.status = "PS_FULL" ->
                IF Len(backends) # Len(h.backends) THEN TRUE
                ELSE LET m == { backends[k] : k \in 1 .. Len(backends) }
                     IN  \E k \in 1 .. Len(h.backends) :
                            \/ ~ h.backends[k].isIP
                            \/ h.backends[k].ip \notin m
           [] OTHER -> TRUE

Configs ==
    [Concurrency : 1 .. MaxConcurrency,
     CanaryNum : 0 .. MaxCanaryNum,
     MaxFailures : 0 .. MaxMaxFailures,
     Backends : { [k \in 1 .. n |-> k] : n \in 1 .. MaxBackends }]

(* the SpecAction variables while the workflow runs *)
ActIdle ==
    /\ act = NewActions
    /\ started = FALSE
    /\ apc = "idle"
    /\ fn = Nil
    /\ ctxDone = FALSE
    /\ calls = [s \in Stages |-> 0]
    /\ runNo = 0
    /\ lastRet = Nil
    /\ failLog = <<>>
    /\ healthy = FALSE

(* the variables of retryFailed outside retryFailed *)
RetryIdle ==
    /\ ws = <<>>
    /\ ri = 0
    /\ rwg = 0
    /\ rworker = [k \in 0 .. (Len(config.Backends) - 1) |-> "none"]
    /\ rtarget = [k \in 0 .. (Len(config.Backends) - 1) |-> 0]
    /\ retries = 0

(* the variables of the CLI's main when Run is called from elsewhere *)
CLIIdle ==
    /\ cpc = "none"
    /\ pass = 0
    /\ exitCode = -1

(* the variables of Config.Validate outside it *)
ValIdle ==
    /\ vin = <<>>
    /\ vout = "none"

(* the variables of jobKill outside it *)
KillIdle ==
    /\ kpc = "idle"
    /\ kproc = "gone"
    /\ ksigs = <<>>
    /\ ktimer = FALSE
    /\ kpolls = 0
    /\ kret = "none"
    /\ kseen = "none"

(* what a request of reachable came to: none made yet, the request not
   built, c.Do failed, io.ReadAll failed, or a body *)
Outcome(kind, body) == [kind |-> kind, body |-> body]

(* the variables of reachable outside it *)
ReachIdle ==
    /\ hpc = "idle"
    /\ hctx = FALSE
    /\ hpolls = 0
    /\ hlast = Outcome("none", <<>>)
    /\ hret = "none"

(* the variables of New outside it *)
NewIdle ==
    /\ npc = "idle"
    /\ nin = <<>>
    /\ nacts = <<>>
    /\ nret = "none"

(* workflow.New, workflow.go:51-60 *)
Init ==
    /\ config \in Configs
    /\ ph = NoPH
    /\ pc = "start"
    /\ i = 0
    /\ limit = 0
    /\ wg = 0
    /\ failures = 0
    /\ endState = ESUnknown
    /\ ret = "none"
    /\ actions = [k \in 0 .. (Len(config.Backends) - 1) |-> NewActions]
    /\ worker = [k \in 0 .. (Len(config.Backends) - 1) |-> "none"]
    /\ inRun = [k \in 0 .. (Len(config.Backends) - 1) |-> 0]
    /\ runs = [k \in 0 .. (Len(config.Backends) - 1) |-> 0]
    /\ slept = 0
    /\ ActIdle
    /\ RetryIdle
    /\ CLIIdle
    /\ ValIdle
    /\ KillIdle
    /\ ReachIdle
    /\ NewIdle

(* workflow.go:212-220: the failures of status(), as indexes of w.actions *)
StatusFailures == { k \in Indexes : actions[k].err # Nil }

(* entering actions[k].Run *)
BeginRun(k) ==
    /\ inRun' = [inRun EXCEPT ![k] = @ + 1]
    /\ runs' = [runs EXCEPT ![k] = @ + 1]

(* actions[k].Run returning r = <<Actions value, error>> *)
EndRun(k, r) ==
    /\ actions' = [actions EXCEPT ![k] = r[1]]
    /\ inRun' = [inRun EXCEPT ![k] = @ - 1]

(* workflow.go:67-68 with 153: the PoolHealth call of checkLBState *)
CallPoolHealth ==
    /\ pc = "start"
    /\ \E h \in PoolHealthAnswers(NumActions) : ph' = h
    /\ pc' = "checkLB"
    /\ UNCHANGED <<config, i, limit, wg, failures, endState, ret, actions,
                   worker, inRun, runs, slept>>
    /\ UNCHANGED <<actVars, retryVars, cliVars, valVars, killVars, reachVars,
                   newVars>>

(* mutant: the precondition's error is recorded but Run goes on *)
CheckLB_NoReturn ==
    /\ pc = "checkLB"
    /\ ph' = NoPH
    /\ IF checkLBState(config.Backends, ph)
       THEN /\ endState' = ESPreconditionFailure
            /\ ret' = "err"
       ELSE UNCHANGED <<endState, ret>>
    /\ pc' = "canary"
    /\ UNCHANGED <<config, i, limit, wg, failures, actions, worker, inRun,
                   runs, slept>>
    /\ UNCHANGED <<actVars, retryVars, cliVars, valVars, killVars, reachVars,
                   newVars>>

(* workflow.go:68-73 with 154-190: the rest of checkLBState and Run's test of
   its error *)
CheckLB ==
    /\ pc = "checkLB"
    /\ ph' = NoPH
    /\ IF checkLBState(config.Backends, ph)
       THEN /\ endState' = ESPreconditionFailure
            /\ ret' = "err"
            /\ pc' = "done"
       ELSE /\ pc' = "canary"
            /\ UNCHANGED <<endState, ret>>
    /\ UNCHANGED <<config, i, limit, wg, failures, actions, worker, inRun,
                   runs, slept>>
    /\ UNCHANGED <<actVars, retryVars, cliVars, valVars, killVars, reachVars,
                   newVars>>

(* mutant: the canary loop stops one Action early *)
CanaryCond_Short == i < NumActions /\ i + 1 < config.CanaryNum

(* workflow.go:76: the canary loop's condition *)
CanaryCond == i < NumActions /\ i < config.CanaryNum

(* workflow.go:76-79: the loop condition holds, w.actions[i].Run is entered *)
CanaryStart ==
    /\ pc = "canary"
    /\ CanaryCond
    /\ BeginRun(i)
    /\ pc' = "canaryRun"
    /\ UNCHANGED <<config, ph, i, limit, wg, failures, endState, ret, actions,
                   worker, slept>>
    /\ UNCHANGED <<actVars, retryVars, cliVars, valVars, killVars, reachVars,
                   newVars>>

(* mutant: a canary's error does not stop the workflow *)
CanaryReturn_NoAbort ==
    /\ pc = "canaryRun"
    /\ \E r \in RunResults(actions[i]) : EndRun(i, r)
    /\ pc' = "canarySleep"
    /\ UNCHANGED <<config, ph, i, limit, wg, failures, endState, ret, worker,
                   runs, slept>>
    /\ UNCHANGED <<actVars, retryVars, cliVars, valVars, killVars, reachVars,
                   newVars>>

(* workflow.go:79-85: the canary's Run returns *)
CanaryReturn ==
    /\ pc = "canaryRun"
    /\ \E r \in RunResults(actions[i]) :
        /\ EndRun(i, r)
        /\ IF r[2] # Nil
           THEN /\ endState' = ESCanaryFailure
                /\ ret' = "err"
                /\ pc' = "done"
           ELSE /\ pc' = "canarySleep"
                /\ UNCHANGED <<endState, ret>>
    /\ UNCHANGED <<config, ph, i, limit, wg, failures, worker, runs, slept>>
    /\ UNCHANGED <<actVars, retryVars, cliVars, valVars, killVars, reachVars,
                   newVars>>

(* mutant: the canary loop steps over an Action *)
CanarySleep_Skip ==
    /\ pc = "canarySleep"
    /\ slept' = slept + 1
    /\ i' = i + 2
    /\ pc' = "canary"
    /\ UNCHANGED <<config, ph, limit, wg, failures, endState, ret, actions,
                   worker, inRun, runs>>
    /\ UNCHANGED <<actVars, retryVars, cliVars, valVars, killVars, reachVars,
                   newVars>>

(* workflow.go:86 and the i++ of 76 *)
CanarySleep ==
    /\ pc = "canarySleep"
    /\ slept' = slept + 1
    /\ i' = i + 1
    /\ pc' = "canary"
    /\ UNCHANGED <<config, ph, limit, wg, failures, endState, ret, actions,
                   worker, inRun, runs>>
    /\ UNCHANGED <<actVars, retryVars, cliVars, valVars, killVars, reachVars,
                   newVars>>

(* mutant: the bulk loop starts at 0 and not at CanaryNum *)
BulkInit_FromZero ==
    /\ pc = "canary"
    /\ ~ CanaryCond
    /\ limit' = 0
    /\ wg' = 0
    /\ i' = 0
    /\ pc' = "bulk"
    /\ UNCHANGED <<config, ph, failures, endState, ret, actions, worker,
                   inRun, runs, slept>>
    /\ UNCHANGED <<actVars, retryVars, cliVars, valVars, killVars, reachVars,
                   newVars>>

(* workflow.go:89-93: the canary loop ends; limit and wg are made and the bulk
   loop starts at i = CanaryNum *)
BulkInit ==
    /\ pc = "canary"
    /\ ~ CanaryCond
    /\ limit' = 0
    /\ wg' = 0
    /\ i' = config.CanaryNum
    /\ pc' = "bulk"
    /\ UNCHANGED <<config, ph, failures, endState, ret, actions, worker,
                   inRun, runs, slept>>
    /\ UNCHANGED <<actVars, retryVars, cliVars, valVars, killVars, reachVars,
                   newVars>>

(* mutant: the channel is made one slot too large *)
CanSend_OneMore == limit <= config.Concurrency

(* workflow.go:95: limit <- struct{}{} blocks while the channel is full *)
CanSend == limit < config.Concurrency

(* workflow.go:93-95: the loop condition holds and the send succeeds *)
BulkAcquire ==
    /\ pc = "bulk"
    /\ i < NumActions
    /\ CanSend
    /\ limit' = limit + 1
    /\ pc' = "bulkCheck"
    /\ UNCHANGED <<config, ph, i, wg, failures, endState, ret, actions,
                   worker, inRun, runs, slept>>
    /\ UNCHANGED <<actVars, retryVars, cliVars, valVars, killVars, reachVars,
                   newVars>>

(* mutant: the admission test tolerates one failure more *)
AdmitBlocked_OneMore == failures > config.MaxFailures + 1

(* workflow.go:96: the test of the failure counter before an admission *)
AdmitBlocked == failures > config.MaxFailures

(* workflow.go:96-113: the admission test; break, or wg.Add(1), the go
   statement and i++.  With i outside w.actions (a negative CanaryNum) the
   goroutine started here panics at w.actions[i] (line 105) and the process
   ends, whatever the other goroutines were doing. *)
BulkCheck ==
    /\ pc = "bulkCheck"
    /\ IF AdmitBlocked
       THEN /\ pc' = "wait"
            /\ UNCHANGED <<wg, worker, i>>
       ELSE IF i \notin Indexes
       THEN /\ pc' = "crash"
            /\ UNCHANGED <<wg, worker, i>>
       ELSE /\ wg' = wg + 1
            /\ worker' = [worker EXCEPT ![i] = "spawned"]
            /\ i' = i + 1
            /\ pc' = "bulk"
    /\ UNCHANGED <<config, ph, limit, failures, endState, ret, actions,
                   inRun, runs, slept>>
    /\ UNCHANGED <<actVars, retryVars, cliVars, valVars, killVars, reachVars,
                   newVars>>


(* mutant: the bulk loop ends before the last Action *)
BulkExit_Early ==
    /\ pc = "bulk"
    /\ ~ (i + 1 < NumActions)
    /\ pc' = "wait"
    /\ UNCHANGED <<config, ph, i, limit, wg, failures, endState, ret, actions,
                   worker, inRun, runs, slept>>
    /\ UNCHANGED <<actVars, retryVars, cliVars, valVars, killVars, reachVars,
                   newVars>>
(* workflow.go:93: the bulk loop's condition fails *)
BulkExit ==
    /\ pc = "bulk"
    /\ ~ (i < NumActions)
    /\ pc' = "wait"
    /\ UNCHANGED <<config, ph, i, limit, wg, failures, endState, ret, actions,
                   worker, inRun, runs, slept>>
    /\ UNCHANGED <<actVars, retryVars, cliVars, valVars, killVars, reachVars,
                   newVars>>

(* mutant: the goroutine gives its slot back before it runs the Action *)
WorkerStart_EarlyRelease(k) ==
    /\ worker[k] = "spawned"
    /\ BeginRun(k)
    /\ limit' = limit - 1
    /\ worker' = [worker EXCEPT ![k] = "running"]
    /\ UNCHANGED <<config, ph, pc, i, wg, failures, endState, ret,
                   actions, slept>>
    /\ UNCHANGED <<actVars, retryVars, cliVars, valVars, killVars, reachVars,
                   newVars>>

(* workflow.go:100-106: the goroutine enters w.actions[k].Run *)
WorkerStart(k) ==
    /\ worker[k] = "spawned"
    /\ BeginRun(k)
    /\ worker' = [worker EXCEPT ![k] = "running"]
    /\ UNCHANGED <<config, ph, pc, i, limit, wg, failures, endState, ret,
                   actions, slept>>
    /\ UNCHANGED <<actVars, retryVars, cliVars, valVars, killVars, reachVars,
                   newVars>>

(* workflow.go:106-108: Run returns in the goroutine *)
WorkerReturn(k) ==
    /\ worker[k] = "running"
    /\ \E r \in RunResults(actions[k]) :
        /\ EndRun(k, r)
        /\ worker' = [worker EXCEPT ![k] = IF r[2] # Nil THEN "failed" ELSE "deferWg"]
    /\ UNCHANGED <<config, ph, pc, i, limit, wg, failures, endState, ret,
                   runs, slept>>
    /\ UNCHANGED <<actVars, retryVars, cliVars, valVars, killVars, reachVars,
                   newVars>>

(* mutant: the failure is logged but not counted *)
WorkerCount_NoAdd(k) ==
    /\ worker[k] = "failed"
    /\ worker' = [worker EXCEPT ![k] = "deferWg"]
    /\ UNCHANGED <<config, ph, pc, i, limit, wg, failures, endState, ret,
                   actions, inRun, runs, slept>>
    /\ UNCHANGED <<actVars, retryVars, cliVars, valVars, killVars, reachVars,
                   newVars>>

(* workflow.go:108-111: atomic.AddInt32(&w.failures, 1) *)
WorkerCount(k) ==
    /\ worker[k] = "failed"
    /\ failures' = failures + 1
    /\ worker' = [worker EXCEPT ![k] = "deferWg"]
    /\ UNCHANGED <<config, ph, pc, i, limit, wg, endState, ret, actions,
                   inRun, runs, slept>>
    /\ UNCHANGED <<actVars, retryVars, cliVars, valVars, killVars, reachVars,
                   newVars>>

(* mutant: the goroutine ends without wg.Done() *)
WorkerWgDone_NoDone(k) ==
    /\ worker[k] = "deferWg"
    /\ worker' = [worker EXCEPT ![k] = "deferLimit"]
    /\ UNCHANGED <<config, ph, pc, i, limit, wg, failures, endState, ret,
                   actions, inRun, runs, slept>>
    /\ UNCHANGED <<actVars, retryVars, cliVars, valVars, killVars, reachVars,
                   newVars>>

(* workflow.go:102: the deferred wg.Done(), the first deferred call to run *)
WorkerWgDone(k) ==
    /\ worker[k] = "deferWg"
    /\ wg' = wg - 1
    /\ worker' = [worker EXCEPT ![k] = "deferLimit"]
    /\ UNCHANGED <<config, ph, pc, i, limit, failures, endState, ret, actions,
                   inRun, runs, slept>>
    /\ UNCHANGED <<actVars, retryVars, cliVars, valVars, killVars, reachVars,
                   newVars>>

(* workflow.go:101: the deferred <-limit, the last deferred call to run *)
WorkerRelease(k) ==
    /\ worker[k] = "deferLimit"
    /\ limit > 0
    /\ limit' = limit - 1
    /\ worker' = [worker EXCEPT ![k] = "exited"]
    /\ UNCHANGED <<config, ph, pc, i, wg, failures, endState, ret, actions,
                   inRun, runs, slept>>
    /\ UNCHANGED <<actVars, retryVars, cliVars, valVars, killVars, reachVars,
                   newVars>>

(* mutant: the final test uses >= *)
BudgetExceeded_Geq == failures >= config.MaxFailures

(* workflow.go:116: the test of the failure counter after wg.Wait() *)
BudgetExceeded == failures > config.MaxFailures

(* mutant: the final test of the counter without wg.Wait() *)
WaitDone_NoWait ==
    /\ pc = "wait"
    /\ IF BudgetExceeded
       THEN /\ endState' = ESMaxFailures
            /\ ret' = "err"
       ELSE /\ endState' = ESSuccess
            /\ ret' = "nil"
    /\ pc' = "done"
    /\ UNCHANGED <<config, ph, i, limit, wg, failures, actions, worker,
                   inRun, runs, slept>>
    /\ UNCHANGED <<actVars, retryVars, cliVars, valVars, killVars, reachVars,
                   newVars>>

(* workflow.go:114-121: wg.Wait() returns, the final test of the counter *)
WaitDone ==
    /\ pc = "wait"
    /\ wg = 0
    /\ IF BudgetExceeded
       THEN /\ endState' = ESMaxFailures
            /\ ret' = "err"
       ELSE /\ endState' = ESSuccess
            /\ ret' = "nil"
    /\ pc' = "done"
    /\ UNCHANGED <<config, ph, i, limit, wg, failures, actions, worker,
                   inRun, runs, slept>>
    /\ UNCHANGED <<actVars, retryVars, cliVars, valVars, killVars, reachVars,
                   newVars>>

Next ==
    \/ CallPoolHealth
    \/ CheckLB
    \/ CanaryStart
    \/ CanaryReturn
    \/ CanarySleep
    \/ BulkInit
    \/ BulkAcquire
    \/ BulkCheck
    \/ BulkExit
    \/ \E k \in Indexes : WorkerStart(k)
    \/ \E k \in Indexes : WorkerReturn(k)
    \/ \E k \in Indexes : WorkerCount(k)
    \/ \E k \in Indexes : WorkerWgDone(k)
    \/ \E k \in Indexes : WorkerRelease(k)
    \/ WaitDone

Spec == Init /\ [][Next]_vars

----------------------------------------------------------------------------
(* Workflow.retryFailed (workflow.go:125-148), called any number of times when
   Run is not executing *)

(* the Workflow variables after workflow.New, but for config *)
WfStart ==
    /\ ph = NoPH
    /\ pc = "start"
    /\ i = 0
    /\ limit = 0
    /\ wg = 0
    /\ failures = 0
    /\ endState = ESUnknown
    /\ ret = "none"
    /\ actions = [k \in 0 .. (Len(config.Backends) - 1) |-> NewActions]
    /\ worker = [k \in 0 .. (Len(config.Backends) - 1) |-> "none"]
    /\ inRun = [k \in 0 .. (Len(config.Backends) - 1) |-> 0]
    /\ runs = [k \in 0 .. (Len(config.Backends) - 1) |-> 0]
    /\ slept = 0

RetryConfigs ==
    [Concurrency : 1 .. MaxRetryConcurrency,
     CanaryNum : 0 .. MaxRetryCanaryNum,
     MaxFailures : 0 .. MaxRetryFailures,
     Backends : { [k \in 1 .. n |-> k] : n \in 1 .. MaxRetryBackends }]

InitRetry ==
    /\ config \in RetryConfigs
    /\ WfStart
    /\ ActIdle
    /\ RetryIdle
    /\ CLIIdle
    /\ ValIdle
    /\ KillIdle
    /\ ReachIdle
    /\ NewIdle

(* the configs of the specification with fairness *)
LiveConfigs ==
    [Concurrency : 1 .. MaxLiveConcurrency,
     CanaryNum : 0 .. MaxLiveCanaryNum,
     MaxFailures : 0 .. MaxLiveFailures,
     Backends : { [k \in 1 .. n |-> k] : n \in 1 .. MaxLiveBackends }]

(* workflow.New, workflow.go:51-60 *)
InitLive ==
    /\ config \in LiveConfigs
    /\ WfStart
    /\ ActIdle
    /\ RetryIdle
    /\ CLIIdle
    /\ ValIdle
    /\ KillIdle
    /\ ReachIdle
    /\ NewIdle

(* Workflow.Run with the calls it makes returning and its goroutines
   scheduled: PoolHealth and every Action.Run return, a goroutine that can
   take its next step takes it, a send or receive on limit or wg.Wait() that
   can proceed does.  No step of Run leads back to an earlier state, so weak
   fairness of Next is weak fairness of the main goroutine and of each
   worker. *)
SpecLive == InitLive /\ [][Next]_vars /\ WF_vars(Next)

(* workflow.go:212-220: ws.failures of status(), in the order of w.actions *)
StatusSeq ==
    LET S == StatusFailures
    IN  [j \in 1 .. Cardinality(S) |->
            CHOOSE k \in S : Cardinality({ x \in S : x < k }) = j - 1]

(* mutant: retryFailed only refuses a workflow that has not run *)
RetryAllowed_AfterAnyRun == endState # ESUnknown

(* workflow.go:126: the test that guards retryFailed *)
RetryAllowed == endState = ESSuccess

(* workflow.go:125-132: retryFailed is entered, by any caller a bounded number
   of times or by main (config.go:163); it panics, or takes status() *)
RetryCall ==
    /\ pc \in {"start", "done"}
    /\ IF cpc = "none" THEN retries < MaxRetries
       ELSE cpc = "retrying" /\ retries = pass
    /\ IF ~ RetryAllowed
       THEN /\ pc' = "panic"
            /\ UNCHANGED <<ws, ri, rwg, rworker, rtarget>>
       ELSE /\ pc' = "retry"
            /\ ws' = StatusSeq
            /\ ri' = 0
            /\ rwg' = 0
            /\ rworker' = [k \in Indexes |-> "none"]
            /\ rtarget' = [k \in Indexes |-> 0]
    /\ UNCHANGED <<config, ph, i, limit, wg, failures, endState, ret, actions,
                   worker, inRun, runs, slept, retries>>
    /\ UNCHANGED <<actVars, cliVars, valVars, killVars, reachVars, newVars>>

(* workflow.go:134-136 and 145: the loop condition holds; wg.Add(1), the go
   statement and i++ *)
RetrySpawn ==
    /\ pc = "retry"
    /\ ri < Len(ws)
    /\ rwg' = rwg + 1
    /\ rworker' = [rworker EXCEPT ![ri] = "spawned"]
    /\ ri' = ri + 1
    /\ UNCHANGED <<ws, rtarget, retries>>
    /\ UNCHANGED <<wfVars, actVars, cliVars, valVars, killVars, reachVars,
                   newVars>>

(* workflow.go:134-140: the values the goroutine of iteration s can find in i.
   The closure captures the loop variable itself (there is no i := i as at
   line 94), which the loop goes on incrementing: the read races with i++ and
   yields the iteration's own value or the variable's current one. *)
ReadLoopVar(s) == {s, ri}

(* workflow.go:140: the index into ws.failures of the goroutine of iteration s
   that found k in i *)
RetryIndex(s, k) == k

(* workflow.go:136-140: the goroutine evaluates ws.failures[i], which panics
   when i is out of range, and enters that Action's Run *)
RetryWorkerStart(s) ==
    /\ pc = "retry"
    /\ rworker[s] = "spawned"
    /\ \E v \in ReadLoopVar(s) :
        LET k == RetryIndex(s, v) IN
        IF k >= Len(ws)
        THEN /\ pc' = "crash"
             /\ rworker' = [rworker EXCEPT ![s] = "crashed"]
             /\ UNCHANGED <<rtarget, inRun, runs>>
        ELSE /\ rtarget' = [rtarget EXCEPT ![s] = k]
             /\ BeginRun(ws[k + 1])
             /\ rworker' = [rworker EXCEPT ![s] = "running"]
             /\ pc' = pc
    /\ UNCHANGED <<config, ph, i, limit, wg, failures, endState, ret, actions,
                   worker, slept>>
    /\ UNCHANGED <<ws, ri, rwg, retries>>
    /\ UNCHANGED <<actVars, cliVars, valVars, killVars, reachVars, newVars>>

(* workflow.go:140-142: Run returns in the goroutine *)
RetryWorkerReturn(s) ==
    /\ pc = "retry"
    /\ rworker[s] = "running"
    /\ \E r \in RunResults(actions[ws[rtarget[s] + 1]]) :
        /\ EndRun(ws[rtarget[s] + 1], r)
        /\ rworker' = [rworker EXCEPT ![s] = IF r[2] = Nil THEN "retOk" ELSE "retErr"]
    /\ UNCHANGED <<config, ph, pc, i, limit, wg, failures, endState, ret,
                   worker, runs, slept>>
    /\ UNCHANGED <<ws, ri, rwg, rtarget, retries>>
    /\ UNCHANGED <<actVars, cliVars, valVars, killVars, reachVars, newVars>>

(* workflow.go:142-144: atomic.AddInt32(&w.failures, -1) when err == nil *)
RetryCounted(st) == IF st = "retOk" THEN failures - 1 ELSE failures

(* workflow.go:137 and 142-144: the counter is updated and the deferred
   wg.Done() runs *)
RetryWorkerDone(s) ==
    /\ pc = "retry"
    /\ rworker[s] \in {"retOk", "retErr"}
    /\ failures' = RetryCounted(rworker[s])
    /\ rwg' = rwg - 1
    /\ rworker' = [rworker EXCEPT ![s] = IF @ = "retOk" THEN "doneOk" ELSE "doneErr"]
    /\ UNCHANGED <<config, ph, pc, i, limit, wg, endState, ret, actions,
                   worker, inRun, runs, slept>>
    /\ UNCHANGED <<ws, ri, rtarget, retries>>
    /\ UNCHANGED <<actVars, cliVars, valVars, killVars, reachVars, newVars>>


(* mutant: retryFailed settles EndState again from the failures left *)
RetryWait_Reassign ==
    /\ pc = "retry"
    /\ ~ (ri < Len(ws))
    /\ rwg = 0
    /\ pc' = "done"
    /\ retries' = retries + 1
    /\ endState' = IF StatusFailures = {} THEN ESSuccess ELSE ESMaxFailures
    /\ UNCHANGED <<config, ph, i, limit, wg, failures, ret, actions,
                   worker, inRun, runs, slept>>
    /\ UNCHANGED <<ws, ri, rwg, rworker, rtarget>>
    /\ UNCHANGED <<actVars, cliVars, valVars, killVars, reachVars, newVars>>

(* workflow.go:134 and 147: the loop is over and wg.Wait() returns *)
RetryWait ==
    /\ pc = "retry"
    /\ ~ (ri < Len(ws))
    /\ rwg = 0
    /\ pc' = "done"
    /\ retries' = retries + 1
    /\ UNCHANGED <<config, ph, i, limit, wg, failures, endState, ret, actions,
                   worker, inRun, runs, slept>>
    /\ UNCHANGED <<ws, ri, rwg, rworker, rtarget>>
    /\ UNCHANGED <<actVars, cliVars, valVars, killVars, reachVars, newVars>>

NextRetry ==
    \/ CallPoolHealth
    \/ CheckLB
    \/ CanaryStart
    \/ CanaryReturn
    \/ CanarySleep
    \/ BulkInit
    \/ BulkAcquire
    \/ BulkCheck
    \/ BulkExit
    \/ \E k \in Indexes : WorkerStart(k)
    \/ \E k \in Indexes : WorkerReturn(k)
    \/ \E k \in Indexes : WorkerCount(k)
    \/ \E k \in Indexes : WorkerWgDone(k)
    \/ \E k \in Indexes : WorkerRelease(k)
    \/ WaitDone
    \/ RetryCall
    \/ RetrySpawn
    \/ \E s \in Indexes : RetryWorkerStart(s)
    \/ \E s \in Indexes : RetryWorkerReturn(s)
    \/ \E s \in Indexes : RetryWorkerDone(s)
    \/ RetryWait

SpecRetry == InitRetry /\ [][NextRetry]_vars

----------------------------------------------------------------------------
(* The command's main (orchestration/config/config.go:96-189) from its call of
   wf.Run on *)

(* config.go:158: the number of retry passes *)
RetryPasses == 3

CLIConfigs ==
    [Concurrency : 1 .. MaxConcurrency,
     CanaryNum : 0 .. MaxRetryCanaryNum,
     MaxFailures : 0 .. MaxCLIFailures,
     Backends : { [k \in 1 .. n |-> k] : n \in 1 .. MaxCLIBackends }]

(* config.go:96-130: setup succeeded and main is about to call wf.Run *)
InitCLI ==
    /\ config \in CLIConfigs
    /\ WfStart
    /\ ActIdle
    /\ RetryIdle
    /\ cpc = "run"
    /\ pass = 0
    /\ exitCode = -1
    /\ ValIdle
    /\ KillIdle
    /\ ReachIdle
    /\ NewIdle

(* config.go:148: the exit code after wf.Run returned an error *)
RunErrExit == 1

(* config.go:131-157: wf.Run has returned; exit 1 on an error, exit 0 without
   failures, else enter the retry loop with i = 0 *)
MainAfterRun ==
    /\ cpc = "run"
    /\ pc = "done"
    /\ IF ret = "err"
       THEN /\ cpc' = "exited"
            /\ exitCode' = RunErrExit
       ELSE IF StatusFailures = {}
       THEN /\ cpc' = "exited"
            /\ exitCode' = 0
       ELSE /\ cpc' = "retryLoop"
            /\ UNCHANGED exitCode
    /\ UNCHANGED pass
    /\ UNCHANGED <<wfVars, actVars, retryVars, valVars, killVars, reachVars,
                   newVars>>


(* mutant: the retry loop has no limit of passes *)
MainSleep_NoLimit ==
    /\ cpc = "retryLoop"
    /\ cpc' = "retrying"
    /\ UNCHANGED <<pass, exitCode>>
    /\ UNCHANGED <<wfVars, actVars, retryVars, valVars, killVars, reachVars,
                   newVars>>
(* config.go:158-163: i < 3, the sleep of 5 minutes; main calls RetryFailed *)
MainSleep ==
    /\ cpc = "retryLoop"
    /\ pass < RetryPasses
    /\ cpc' = "retrying"
    /\ UNCHANGED <<pass, exitCode>>
    /\ UNCHANGED <<wfVars, actVars, retryVars, valVars, killVars, reachVars,
                   newVars>>

(* config.go:164-168: RetryFailed has returned; break without failures, else
   i++ *)
MainAfterRetry ==
    /\ cpc = "retrying"
    /\ pc = "done"
    /\ retries = pass + 1
    /\ IF StatusFailures = {}
       THEN cpc' = "afterLoop"
       ELSE cpc' = "retryLoop"
    /\ pass' = pass + 1
    /\ UNCHANGED exitCode
    /\ UNCHANGED <<wfVars, actVars, retryVars, valVars, killVars, reachVars,
                   newVars>>

(* config.go:158: the loop condition i < 3 is false *)
MainLoopEnd ==
    /\ cpc = "retryLoop"
    /\ ~ (pass < RetryPasses)
    /\ cpc' = "afterLoop"
    /\ UNCHANGED <<pass, exitCode>>
    /\ UNCHANGED <<wfVars, actVars, retryVars, valVars, killVars, reachVars,
                   newVars>>

(* config.go:170-188: os.Exit(0) without failures (line 173), and os.Exit(0)
   after the table of the failures that remain (line 188) *)
MainExit ==
    /\ cpc = "afterLoop"
    /\ cpc' = "exited"
    /\ exitCode' = IF StatusFailures = {} THEN 0 ELSE 0
    /\ UNCHANGED pass
    /\ UNCHANGED <<wfVars, actVars, retryVars, valVars, killVars, reachVars,
                   newVars>>

(* a goroutine of retryFailed panicked (index out of range): the Go runtime
   ends the process with exit code 2 *)
MainCrash ==
    /\ cpc = "retrying"
    /\ pc = "crash"
    /\ cpc' = "exited"
    /\ exitCode' = 2
    /\ UNCHANGED pass
    /\ UNCHANGED <<wfVars, actVars, retryVars, valVars, killVars, reachVars,
                   newVars>>

NextCLI ==
    \/ CallPoolHealth
    \/ CheckLB
    \/ CanaryStart
    \/ CanaryReturn
    \/ CanarySleep
    \/ BulkInit
    \/ BulkAcquire
    \/ BulkCheck
    \/ BulkExit
    \/ \E k \in Indexes : WorkerStart(k)
    \/ \E k \in Indexes : WorkerReturn(k)
    \/ \E k \in Indexes : WorkerCount(k)
    \/ \E k \in Indexes : WorkerWgDone(k)
    \/ \E k \in Indexes : WorkerRelease(k)
    \/ WaitDone
    \/ MainAfterRun
    \/ MainSleep
    \/ RetryCall
    \/ RetrySpawn
    \/ \E s \in Indexes : RetryWorkerStart(s)
    \/ \E s \in Indexes : RetryWorkerReturn(s)
    \/ \E s \in Indexes : RetryWorkerDone(s)
    \/ RetryWait
    \/ MainAfterRetry
    \/ MainLoopEnd
    \/ MainExit
    \/ MainCrash

SpecCLI == InitCLI /\ [][NextCLI]_vars

----------------------------------------------------------------------------
(* Repeated Actions.Run on one Actions value, statement by statement
   (actions.go:79-115) *)

(* the workflow variables while one Actions value is run on its own *)
WfIdle ==
    /\ config = [Concurrency |-> 1, CanaryNum |-> 0, MaxFailures |-> 0,
                 Backends |-> <<1>>]
    /\ ph = NoPH
    /\ pc = "start"
    /\ i = 0
    /\ limit = 0
    /\ wg = 0
    /\ failures = 0
    /\ endState = ESUnknown
    /\ ret = "none"
    /\ actions = [k \in {0} |-> NewActions]
    /\ worker = [k \in {0} |-> "none"]
    /\ inRun = [k \in {0} |-> 0]
    /\ runs = [k \in {0} |-> 0]
    /\ slept = 0

(* actions.New, actions.go:56-67 *)
InitAction ==
    WfIdle /\ ActIdle /\ RetryIdle /\ CLIIdle /\ ValIdle /\ KillIdle /\ ReachIdle
    /\ NewIdle

(* a caller enters Run with a context that may already be done *)
ARunEnter ==
    /\ apc = "idle"
    /\ runNo < MaxRuns
    /\ runNo' = runNo + 1
    /\ ctxDone' \in BOOLEAN
    /\ apc' = "setup"
    /\ UNCHANGED <<act, started, fn, calls, lastRet, failLog, healthy>>
    /\ UNCHANGED <<wfVars, retryVars, cliVars, valVars, killVars, reachVars,
                   newVars>>

(* the context's deadline passes, or its parent is cancelled *)
ACtxExpire ==
    /\ apc \in {"setup", "loop", "call", "reachable"}
    /\ ~ ctxDone
    /\ ctxDone' = TRUE
    /\ UNCHANGED <<act, started, apc, fn, calls, runNo, lastRet, failLog,
                   healthy>>
    /\ UNCHANGED <<wfVars, retryVars, cliVars, valVars, killVars, reachVars,
                   newVars>>

(* actions.go:80-99: os.Open and ssh.Dial, then fn and started are set *)
ASetup ==
    /\ apc = "setup"
    /\ \/ /\ act' = RecordSetupErr(act)
          /\ lastRet' = Err
          /\ failLog' = Append(failLog, "setup")
          /\ apc' = "idle"
          /\ UNCHANGED <<started, fn>>
       \/ /\ fn' = StartFn(act)
          /\ started' = TRUE
          /\ apc' = "loop"
          /\ UNCHANGED <<act, lastRet, failLog>>
    /\ UNCHANGED <<ctxDone, calls, runNo, healthy>>
    /\ UNCHANGED <<wfVars, retryVars, cliVars, valVars, killVars, reachVars,
                   newVars>>

(* actions.go:101-104: the test of ctx.Err() at the top of the loop *)
ALoopTop ==
    /\ apc = "loop"
    /\ IF ctxDone
       THEN /\ act' = RecordCtxErr(act)
            /\ lastRet' = CtxErr
            /\ failLog' = Append(failLog, "ctx")
            /\ apc' = "idle"
       ELSE /\ apc' = "call"
            /\ UNCHANGED <<act, lastRet, failLog>>
    /\ UNCHANGED <<started, fn, ctxDone, calls, runNo, healthy>>
    /\ UNCHANGED <<wfVars, retryVars, cliVars, valVars, killVars, reachVars,
                   newVars>>

(* the invocation counts after a handler went through the stages of ran *)
Count(c, ran) ==
    [s \in Stages |->
        c[s] + Cardinality({ n \in 1 .. Len(ran) : ran[n] = s })]

(* mutant: jobStart hands on a.addBackend without calling reachable *)
Entered_NoReachable(f) ==
    IF f = "jobStart"
    THEN { Ret(Nil, Err, <<"jobStart">>, "jobStart"),
           Ret("addBackend", Nil, <<"jobStart">>, Nil) }
    ELSE Handler(f)

(* actions.go:105 and 159-163: what the call fn(ctx) does up to its return or,
   in jobStart, up to its call of a.reachable(ctx); a next of "reachable"
   stands for jobStart standing at line 163 *)
Entered(f) ==
    IF f = "jobStart"
    THEN { Ret(Nil, Err, <<"jobStart">>, "jobStart"),
           Ret("reachable", Nil, <<"jobStart">>, Nil) }
    ELSE Handler(f)

(* actions.go:166-207: what reachable returns; with a context that is already
   done the derived context is done too and the first test of its loop
   (line 189) returns the error "reachable() timed out" *)
ReachableOutcomes(done) ==
    IF done THEN { r \in reachable : r.err # Nil } ELSE reachable

(* actions.go:105-113: the assignment of fn, err = fn(ctx) and the two tests
   after it, for the handler result r *)
AReturn(r) ==
    /\ fn' = r.next
    /\ IF r.err # Nil
       THEN /\ act' = RecordFailure(act, r)
            /\ lastRet' = r.err
            /\ failLog' = Append(failLog, r.failed)
            /\ apc' = "idle"
       ELSE IF r.next = Nil
       THEN /\ lastRet' = Nil
            /\ failLog' = Append(failLog, Nil)
            /\ apc' = "idle"
            /\ UNCHANGED act
       ELSE /\ apc' = "loop"
            /\ UNCHANGED <<act, lastRet, failLog>>

(* actions.go:105-113: fn(ctx) is called; it returns, or it is jobStart and
   goes on to call reachable *)
ACall ==
    /\ apc = "call"
    /\ \E r \in Entered(fn) :
        /\ calls' = Count(calls, r.ran)
        /\ IF r.next = "reachable"
           THEN /\ apc' = "reachable"
                /\ UNCHANGED <<act, fn, lastRet, failLog>>
           ELSE AReturn(r)
    /\ healthy' = IF fn = "jobStart" THEN FALSE ELSE healthy
    /\ UNCHANGED <<started, ctxDone, runNo>>
    /\ UNCHANGED <<wfVars, retryVars, cliVars, valVars, killVars, reachVars,
                   newVars>>

(* actions.go:163 and 166-207: jobStart calls reachable without a test of ctx,
   and returns what reachable returned *)
AReachable ==
    /\ apc = "reachable"
    /\ \E r \in ReachableOutcomes(ctxDone) :
        /\ calls' = Count(calls, r.ran)
        /\ AReturn(r)
        /\ healthy' = (r.err = Nil)
    /\ UNCHANGED <<started, ctxDone, runNo>>
    /\ UNCHANGED <<wfVars, retryVars, cliVars, valVars, killVars, reachVars,
                   newVars>>

NextAction ==
    \/ ARunEnter
    \/ ACtxExpire
    \/ ASetup
    \/ ALoopTop
    \/ ACall
    \/ AReachable

SpecAction == InitAction /\ [][NextAction]_vars

----------------------------------------------------------------------------
(* Config.Validate and CheckIPPort (orchestration/config/config.go:31-68) *)

(* config.go:64: the port range *)
MinPort == 1
MaxPort == 65534

(* The text after the last colon of an address: a decimal number, or something
   strconv.Atoi rejects (empty, letters). *)
PortTexts ==
    { [num |-> TRUE, val |-> v] :
        v \in {MinPort - 2, MinPort - 1, MinPort, MaxPort, MaxPort + 1} }
    \cup { [num |-> FALSE, val |-> 0] }

(* The text before the last colon: an IPv4 or IPv6 literal, a host name, or
   nothing. *)
HostTexts == {"ip4", "ip6", "name", ""}

(* An address string: of the form host:port or not (no colon, too many
   colons). *)
Addrs ==
    [split : {TRUE}, host : HostTexts, port : PortTexts]
    \cup { [split |-> FALSE, host |-> "name", port |-> [num |-> FALSE, val |-> 0]] }

(* net.SplitHostPort, config.go:55 *)
SplitHostPort(b) ==
    IF b.split
    THEN [h |-> b.host, ps |-> b.port, err |-> Nil]
    ELSE [h |-> "", ps |-> [num |-> FALSE, val |-> 0], err |-> Err]

(* strconv.Atoi with its error dropped, config.go:59: 0 when ps is no number *)
Atoi(ps) == IF ps.num THEN ps.val ELSE 0

(* net.ParseIP, config.go:60: nil when h is no IP literal *)
ParseIP(h) == IF h \in {"ip4", "ip6"} THEN h ELSE Nil

(* config.go:54-68: the error CheckIPPort returns; at line 62 it returns the
   err of SplitHostPort, which is nil there *)
CheckIPPort(b) ==
    LET s == SplitHostPort(b) IN
    IF s.err # Nil THEN s.err
    ELSE LET p == Atoi(s.ps)
             ip == ParseIP(s.h)
         IN  IF ip = Nil THEN s.err
             ELSE IF p < MinPort \/ p > MaxPort THEN Err
             ELSE Nil

(* config.go:31-51: the error Validate returns *)
Validate(s) ==
    IF CheckIPPort(s.LB) # Nil THEN Err
    ELSE IF Len(s.Backends) < 1 THEN Err
    ELSE IF \E n \in 1 .. Len(s.Backends) : CheckIPPort(s.Backends[n]) # Nil THEN Err
    ELSE IF s.PatternBlank THEN Err
    ELSE IF s.Concurrency < 1 THEN Err
    ELSE Nil

ValInputs ==
    [LB : Addrs,
     Backends : UNION { [1 .. n -> Addrs] : n \in 0 .. MaxValBackends },
     PatternBlank : BOOLEAN,
     Concurrency : 0 .. 1]

InitValidate ==
    /\ WfIdle
    /\ ActIdle
    /\ RetryIdle
    /\ CLIIdle
    /\ vin \in ValInputs
    /\ vout = "none"
    /\ KillIdle
    /\ ReachIdle
    /\ NewIdle

(* a caller calls Validate on the configuration it read *)
CallValidate ==
    /\ vout = "none"
    /\ vout' = Validate(vin)
    /\ UNCHANGED vin
    /\ UNCHANGED <<wfVars, actVars, retryVars, cliVars, killVars, reachVars,
                   newVars>>

NextValidate == CallValidate

SpecValidate == InitValidate /\ [][NextValidate]_vars

----------------------------------------------------------------------------
(* Actions.jobKill with findPIDs, killPIDs and waitForDeath, statement by
   statement (actions.go:126-150, 218-270) *)

(* actions.go:136 and 141: the signals of the two killPIDs calls *)
SIGTERM == 15
SIGKILL == 9

(* actions.go:218-234: what one findPIDs call can come to, for the state of
   the remote process.  "pids": pidof printed PIDs; "nopid": pidof ended with
   a non-zero status other than 127 (1 when no process has the name) and
   findPIDs returns nil, nil; "missing": status 127, findPIDs returns the
   error; "broken": combinedOutput's error is no *ssh.ExitError (no session,
   connection lost), and the type assertion of line 227 panics. *)
FindOutcomes(proc) ==
    (IF proc = "gone" THEN {"nopid"} ELSE {"pids", "nopid"})
    \cup {"missing", "broken"}

InitKill ==
    /\ WfIdle
    /\ ActIdle
    /\ RetryIdle
    /\ CLIIdle
    /\ ValIdle
    /\ ReachIdle
    /\ NewIdle
    /\ kpc = "idle"
    /\ kproc \in {"running", "gone"}
    /\ ksigs = <<>>
    /\ ktimer = FALSE
    /\ kpolls = 0
    /\ kret = "none"
    /\ kseen = "none"

(* Run's loop calls jobKill *)
KEnter ==
    /\ kpc = "idle"
    /\ kpc' = "find"
    /\ UNCHANGED <<kproc, ksigs, ktimer, kpolls, kret, kseen>>
    /\ UNCHANGED <<wfVars, actVars, retryVars, cliVars, valVars, reachVars,
                   newVars>>

(* the remote process ends, on a signal or by itself *)
ProcExit ==
    /\ kpc \notin {"idle", "done"}
    /\ kproc = "running"
    /\ kproc' = "gone"
    /\ UNCHANGED <<kpc, ksigs, ktimer, kpolls, kret, kseen>>
    /\ UNCHANGED <<wfVars, actVars, retryVars, cliVars, valVars, reachVars,
                   newVars>>

(* actions.go:127-134: the first findPIDs and the test of len(pids) *)
KFind ==
    /\ kpc = "find"
    /\ \E o \in FindOutcomes(kproc) :
        CASE o = "pids" ->
                /\ kseen' = "pid"
                /\ kpc' = "term"
                /\ UNCHANGED kret
          [] o = "nopid" ->
                /\ kseen' = "nopid"
                /\ kret' = "cp"
                /\ kpc' = "done"
          [] o = "missing" ->
                /\ kseen' = "missing"
                /\ kret' = "err"
                /\ kpc' = "done"
          [] o = "broken" ->
                /\ kseen' = "broken"
                /\ kret' = "panic"
                /\ kpc' = "done"
    /\ UNCHANGED <<kproc, ksigs, ktimer, kpolls>>
    /\ UNCHANGED <<wfVars, actVars, retryVars, cliVars, valVars, reachVars,
                   newVars>>

(* mutant: the first signal is the forceful one *)
FirstSignal_Kill == SIGKILL

(* actions.go:136: the signal of the first killPIDs *)
FirstSignal == SIGTERM

(* actions.go:136-138: killPIDs(ctx, pids, 15); it fails, or waitForDeath is
   entered with a timer of 30 seconds *)
KTerm ==
    /\ kpc = "term"
    /\ ksigs' = Append(ksigs, FirstSignal)
    /\ \/ /\ kret' = "err"
          /\ kpc' = "done"
          /\ UNCHANGED <<ktimer, kpolls>>
       \/ /\ kpc' = "wait1"
          /\ ktimer' = FALSE
          /\ kpolls' = 0
          /\ UNCHANGED kret
    /\ UNCHANGED <<kproc, kseen>>
    /\ UNCHANGED <<wfVars, actVars, retryVars, cliVars, valVars, reachVars,
                   newVars>>

(* the timer of the waitForDeath in progress fires (30 s, then 10 s) *)
KTimerFire ==
    /\ kpc \in {"wait1", "poll1", "wait2", "poll2"}
    /\ ~ ktimer
    /\ ktimer' = TRUE
    /\ UNCHANGED <<kpc, kproc, ksigs, kpolls, kret, kseen>>
    /\ UNCHANGED <<wfVars, actVars, retryVars, cliVars, valVars, reachVars,
                   newVars>>

(* actions.go:140-149: jobKill after the first waitForDeath returned an
   error *)
AfterWait1Err ==
    /\ kseen' = "alive1"
    /\ kpc' = "kill"
    /\ UNCHANGED kret

(* actions.go:144-146: jobKill after the second waitForDeath returned an
   error *)
AfterWait2Err ==
    /\ kseen' = "alive2"
    /\ kret' = "err"
    /\ kpc' = "done"

(* actions.go:253-258: the select at the top of waitForDeath's loop *)
KWaitTop ==
    /\ kpc \in {"wait1", "wait2"}
    /\ IF ktimer
       THEN IF kpc = "wait1" THEN AfterWait1Err ELSE AfterWait2Err
       ELSE /\ kpolls < MaxPolls
            /\ kpc' = IF kpc = "wait1" THEN "poll1" ELSE "poll2"
            /\ UNCHANGED <<kret, kseen>>
    /\ UNCHANGED <<kproc, ksigs, ktimer, kpolls>>
    /\ UNCHANGED <<wfVars, actVars, retryVars, cliVars, valVars, reachVars,
                   newVars>>

(* actions.go:260-268: findPIDs inside waitForDeath, the test of
   len(results) and the sleep of one second *)
KPoll ==
    /\ kpc \in {"poll1", "poll2"}
    /\ kpolls' = kpolls + 1
    /\ \E o \in FindOutcomes(kproc) :
        CASE o = "pids" ->
                /\ kpc' = IF kpc = "poll1" THEN "wait1" ELSE "wait2"
                /\ UNCHANGED <<kret, kseen>>
          [] o = "nopid" ->
                /\ kseen' = IF kpc = "poll1" THEN "dead1" ELSE "dead2"
                /\ kret' = "cp"
                /\ kpc' = "done"
          [] o = "missing" ->
                IF kpc = "poll1" THEN AfterWait1Err ELSE AfterWait2Err
          [] o = "broken" ->
                /\ kseen' = "broken"
                /\ kret' = "panic"
                /\ kpc' = "done"
    /\ UNCHANGED <<kproc, ksigs, ktimer>>
    /\ UNCHANGED <<wfVars, actVars, retryVars, cliVars, valVars, reachVars,
                   newVars>>

(* actions.go:141-144: killPIDs(ctx, pids, 9); it fails, or waitForDeath is
   entered with a timer of 10 seconds *)
KKill ==
    /\ kpc = "kill"
    /\ ksigs' = Append(ksigs, SIGKILL)
    /\ \/ /\ kret' = "err"
          /\ kpc' = "done"
          /\ UNCHANGED <<ktimer, kpolls>>
       \/ /\ kpc' = "wait2"
          /\ ktimer' = FALSE
          /\ kpolls' = 0
          /\ UNCHANGED kret
    /\ UNCHANGED <<kproc, kseen>>
    /\ UNCHANGED <<wfVars, actVars, retryVars, cliVars, valVars, reachVars,
                   newVars>>

NextKill ==
    \/ KEnter
    \/ ProcExit
    \/ KFind
    \/ KTerm
    \/ KTimerFire
    \/ KWaitTop
    \/ KPoll
    \/ KKill

SpecKill == InitKill /\ [][NextKill]_vars

----------------------------------------------------------------------------
(* Actions.reachable, statement by statement (actions.go:166-207) *)

(* the white space strings.TrimSpace removes, as far as bodies have it *)
Space == {" ", "\n", "\t"}

(* the response bodies of /healthz, as sequences of characters *)
Bodies ==
    { <<"o", "k">>, <<" ", "o", "k", "\n">>, <<"o", "k", "\n">>,
      <<"\t", "o", "k">>, <<"O", "K">>, <<"o", " ", "k">>,
      <<"n", "o">>, <<"\n">>, <<>> }

(* strings.TrimSpace, actions.go:203: leading white space removed *)
RECURSIVE TrimLeft(_)
TrimLeft(b) ==
    IF b # <<>> /\ Head(b) \in Space THEN TrimLeft(Tail(b)) ELSE b

(* strings.TrimSpace, actions.go:203: trailing white space removed *)
RECURSIVE TrimRight(_)
TrimRight(b) ==
    IF b # <<>> /\ b[Len(b)] \in Space
    THEN TrimRight(SubSeq(b, 1, Len(b) - 1))
    ELSE b

(* mutant: the body is compared as it came *)
TrimSpace_None(b) == b

(* strings.TrimSpace, actions.go:203 *)
TrimSpace(b) == TrimRight(TrimLeft(b))

(* actions.go:193-205: what one pass of the loop after the test of ctx can
   come to: c.Do fails ("neterr"; always so with a ctx that is done),
   io.ReadAll fails ("readerr"), or a body is read *)
PollOutcomes(done) ==
    IF done
    THEN {Outcome("neterr", <<>>)}
    ELSE {Outcome("neterr", <<>>), Outcome("readerr", <<>>)}
            \cup {Outcome("body", b) : b \in Bodies}

InitReach ==
    /\ WfIdle
    /\ ActIdle
    /\ RetryIdle
    /\ CLIIdle
    /\ ValIdle
    /\ KillIdle
    /\ NewIdle
    /\ hpc = "idle"
    /\ hctx \in BOOLEAN
    /\ hpolls = 0
    /\ hlast = Outcome("none", <<>>)
    /\ hret = "none"

(* actions.go:166-186: jobStart calls reachable; the request is made, or
   http.NewRequestWithContext fails *)
HEnter ==
    /\ hpc = "idle"
    /\ \/ /\ hpc' = "top"
          /\ UNCHANGED <<hlast, hret>>
       \/ /\ hlast' = Outcome("badreq", <<>>)
          /\ hret' = "err"
          /\ hpc' = "done"
    /\ UNCHANGED <<hctx, hpolls>>
    /\ UNCHANGED <<wfVars, actVars, retryVars, cliVars, valVars, killVars,
                   newVars>>

(* actions.go:167: the minute of context.WithTimeout is over, or the ctx of
   Run is done *)
HCtxDone ==
    /\ hpc \in {"top", "poll"}
    /\ ~ hctx
    /\ hctx' = TRUE
    /\ UNCHANGED <<hpc, hpolls, hlast, hret>>
    /\ UNCHANGED <<wfVars, actVars, retryVars, cliVars, valVars, killVars,
                   newVars>>

(* actions.go:188-191: the test of ctx.Err() at the top of the loop *)
HTop ==
    /\ hpc = "top"
    /\ IF hctx
       THEN /\ hret' = "err"
            /\ hpc' = "done"
       ELSE /\ hpolls < MaxPolls
            /\ hpc' = "poll"
            /\ UNCHANGED hret
    /\ UNCHANGED <<hctx, hpolls, hlast>>
    /\ UNCHANGED <<wfVars, actVars, retryVars, cliVars, valVars, killVars,
                   newVars>>

(* actions.go:193-205: c.Do, io.ReadAll and the comparison with "ok" *)
HPoll ==
    /\ hpc = "poll"
    /\ hpolls' = hpolls + 1
    /\ \E o \in PollOutcomes(hctx) :
        /\ hlast' = o
        /\ IF o.kind = "body" /\ TrimSpace(o.body) = <<"o", "k">>
           THEN /\ hret' = "addBackend"
                /\ hpc' = "done"
           ELSE /\ hpc' = "top"
                /\ UNCHANGED hret
    /\ UNCHANGED hctx
    /\ UNCHANGED <<wfVars, actVars, retryVars, cliVars, valVars, killVars,
                   newVars>>

NextReach ==
    \/ HEnter
    \/ HCtxDone
    \/ HTop
    \/ HPoll

SpecReach == InitReach /\ [][NextReach]_vars

----------------------------------------------------------------------------
(* workflow.New and buildActions (workflow.go:51-60 and 193-202) with
   actions.New of the orchestration package (part_005:53-65) *)

(* config.go:54-68: the three values CheckIPPort returns; ip is Nil and port 0
   on each of its error returns and on the return of line 62 *)
CheckIPPortResult(b) ==
    IF CheckIPPort(b) = Nil /\ ParseIP(SplitHostPort(b).h) # Nil
    THEN [ip |-> ParseIP(SplitHostPort(b).h),
          port |-> Atoi(SplitHostPort(b).ps),
          err |-> Nil]
    ELSE [ip |-> Nil, port |-> 0, err |-> CheckIPPort(b)]

(* part_005:53-65: actions.New(endpoint, cfg, lb) *)
ActionsNew(b) ==
    LET r == CheckIPPortResult(b) IN
    IF r.err # Nil
    THEN [a |-> Nil, err |-> r.err]
    ELSE [a |-> [endpoint |-> b, ip |-> r.ip, port |-> r.port], err |-> Nil]

(* the Backends lists New is called with *)
NewInputs == UNION { [1 .. n -> Addrs] : n \in 0 .. MaxNewBackends }

InitNew ==
    /\ WfIdle
    /\ ActIdle
    /\ RetryIdle
    /\ CLIIdle
    /\ ValIdle
    /\ KillIdle
    /\ ReachIdle
    /\ npc = "idle"
    /\ nin \in NewInputs
    /\ nacts = <<>>
    /\ nret = "none"

(* workflow.go:51-56: New makes the Workflow and calls buildActions *)
NEnter ==
    /\ npc = "idle"
    /\ npc' = "build"
    /\ UNCHANGED <<nin, nacts, nret>>
    /\ UNCHANGED <<wfVars, actVars, retryVars, cliVars, valVars, killVars,
                   reachVars>>

(* workflow.go:194-200 with 56-58: one pass of the loop of buildActions; on an
   error of actions.New, buildActions and New return it *)
NBuild ==
    /\ npc = "build"
    /\ Len(nacts) < Len(nin)
    /\ LET r == ActionsNew(nin[Len(nacts) + 1]) IN
        IF r.err # Nil
        THEN /\ nret' = "err"
             /\ npc' = "done"
             /\ UNCHANGED nacts
        ELSE /\ nacts' = Append(nacts, r.a)
             /\ UNCHANGED <<npc, nret>>
    /\ UNCHANGED nin
    /\ UNCHANGED <<wfVars, actVars, retryVars, cliVars, valVars, killVars,
                   reachVars>>

(* workflow.go:194, 201 and 59: the range is over, New returns the Workflow *)
NReturn ==
    /\ npc = "build"
    /\ ~ (Len(nacts) < Len(nin))
    /\ nret' = "wf"
    /\ npc' = "done"
    /\ UNCHANGED <<nin, nacts>>
    /\ UNCHANGED <<wfVars, actVars, retryVars, cliVars, valVars, killVars,
                   reachVars>>

NextNew ==
    \/ NEnter
    \/ NBuild
    \/ NReturn

SpecNew == InitNew /\ [][NextNew]_vars

----------------------------------------------------------------------------
(* Config.Validate (config.go:31-51) followed by Workflow.Run on the
   configuration it accepted *)

(* an address CheckIPPort accepts *)
GoodAddr ==
    [split |-> TRUE, host |-> "ip4", port |-> [num |-> TRUE, val |-> MinPort]]

(* the configurations as read from the file: the int32 fields can be
   negative *)
CheckedInputs ==
    [LB : {GoodAddr},
     Backends : { [k \in 1 .. n |-> GoodAddr] : n \in 0 .. MaxCheckedBackends },
     PatternBlank : BOOLEAN,
     Concurrency : 0 .. MaxCheckedConcurrency,
     CanaryNum : -1 .. MaxCheckedCanaryNum,
     MaxFailures : -1 .. MaxCheckedFailures]

(* the fields of the configuration Workflow.Run reads *)
ConfigOf(v) ==
    [Concurrency |-> v.Concurrency,
     CanaryNum |-> v.CanaryNum,
     MaxFailures |-> v.MaxFailures,
     Backends |-> [k \in 1 .. Len(v.Backends) |-> k]]

InitChecked ==
    /\ vin \in CheckedInputs
    /\ vout = "none"
    /\ config = ConfigOf(vin)
    /\ ph = NoPH
    /\ pc = "validate"
    /\ i = 0
    /\ limit = 0
    /\ wg = 0
    /\ failures = 0
    /\ endState = ESUnknown
    /\ ret = "none"
    /\ actions = [k \in 0 .. (Len(config.Backends) - 1) |-> NewActions]
    /\ worker = [k \in 0 .. (Len(config.Backends) - 1) |-> "none"]
    /\ inRun = [k \in 0 .. (Len(config.Backends) - 1) |-> 0]
    /\ runs = [k \in 0 .. (Len(config.Backends) - 1) |-> 0]
    /\ slept = 0
    /\ ActIdle
    /\ RetryIdle
    /\ CLIIdle
    /\ KillIdle
    /\ ReachIdle
    /\ NewIdle

(* config.go:31-51: Validate is called; on nil the workflow is built and Run
   is called, on an error nothing runs *)
ValidateThenRun ==
    /\ pc = "validate"
    /\ vout' = Validate(vin)
    /\ pc' = IF Validate(vin) = Nil THEN "start" ELSE "rejected"
    /\ UNCHANGED <<config, ph, i, limit, wg, failures, endState, ret, actions,
                   worker, inRun, runs, slept, vin>>
    /\ UNCHANGED <<actVars, retryVars, cliVars, killVars, reachVars, newVars>>

NextChecked ==
    \/ ValidateThenRun
    \/ CallPoolHealth
    \/ CheckLB
    \/ CanaryStart
    \/ CanaryReturn
    \/ CanarySleep
    \/ BulkInit
    \/ BulkAcquire
    \/ BulkCheck
    \/ BulkExit
    \/ \E k \in Indexes : WorkerStart(k)
    \/ \E k \in Indexes : WorkerReturn(k)
    \/ \E k \in Indexes : WorkerCount(k)
    \/ \E k \in Indexes : WorkerWgDone(k)
    \/ \E k \in Indexes : WorkerRelease(k)
    \/ WaitDone

SpecChecked == InitChecked /\ [][NextChecked]_vars

----------------------------------------------------------------------------
(* Properties of Workflow.Run *)

(* the indexes the canary loop covers, and the bulk loop's *)
CanaryIndexes == { k \in Indexes : k < config.CanaryNum }
BulkIndexes == { k \in Indexes : k >= config.CanaryNum }
(* bulk-phase Actions whose Run has been entered and has not returned *)
BulkInFlight == { k \in BulkIndexes : inRun[k] > 0 }
(* bulk-phase Actions for which the go statement has been executed *)
Admitted == { k \in Indexes : worker[k] # "none" }
Failed(k) == actions[k].err # Nil

(* C1: with Concurrency = C >= 1, at most C bulk-phase Actions are inside Run
   at any moment, in every interleaving of the admission loop and the
   goroutines. *)
Thm_C1 ==
    config.Concurrency >= 1 => Cardinality(BulkInFlight) <= config.Concurrency

(* C1 witness: the cap is reached while an Action still waits for admission *)
Wit_C1 ==
    /\ config.Concurrency = 2
    /\ Cardinality(BulkInFlight) = 2
    /\ pc = "bulk"
    /\ i < NumActions

(* C2 as stated: once the failure counter is greater than MaxFailures, no
   Actions.Run is entered any more. *)
CE_C2 ==
    [][failures > config.MaxFailures => runs' = runs]_vars

(* C2 amended: once the failure counter is greater than MaxFailures, no further
   Action passes the admission test (no goroutine is started for it); every
   Action admitted before has its Run entered once and returned before
   Workflow.Run returns. *)
Thm_C2 ==
    /\ [][failures > config.MaxFailures => Admitted' = Admitted]_vars
    /\ [](pc = "done" =>
            \A k \in Admitted : runs[k] = 1 /\ inRun[k] = 0
                                /\ worker[k] \in {"deferLimit", "exited"})

(* C2 witness: the budget is exceeded while an admitted Action, whose Run is
   not yet entered, and a not yet admitted Action exist *)
Wit_C2 ==
    /\ failures > config.MaxFailures
    /\ \E k \in Indexes : worker[k] = "spawned"
    /\ pc = "bulkCheck"

(* the scenario of C3: Concurrency=2, CanaryNum=1, MaxFailures=1,
   Backends=[A,B,C,D] (indexes 0..3) *)
Scenario_C3 ==
    /\ config.Concurrency = 2
    /\ config.CanaryNum = 1
    /\ config.MaxFailures = 1
    /\ NumActions = 4

(* C3 as stated: in the scenario, whenever both B and C fail, D's Run is never
   entered, Run ends with MaxFailuresExceeded and the failures are {B,C}. *)
CE_C3 ==
    (Scenario_C3 /\ pc = "done" /\ Failed(1) /\ Failed(2)) =>
        /\ runs[3] = 0
        /\ endState = ESMaxFailures
        /\ StatusFailures = {1, 2}

(* C3 amended: in the scenario, whenever both B and C fail, Run ends with
   MaxFailuresExceeded and the failures contain B and C and at most D besides;
   D is not admitted when its admission test finds both failures counted, and
   if D was never run the failures are exactly {B,C}. *)
Thm_C3 ==
    /\ [](Scenario_C3 /\ pc = "done" /\ Failed(1) /\ Failed(2) =>
            /\ endState = ESMaxFailures
            /\ ret = "err"
            /\ {1, 2} \subseteq StatusFailures
            /\ StatusFailures \subseteq {1, 2, 3}
            /\ ~ Failed(0)
            /\ (runs[3] = 0 => StatusFailures = {1, 2}))
    /\ [][(Scenario_C3 /\ failures = 2 /\ worker[3] = "none") =>
            worker'[3] = "none"]_vars

(* C3 witness: the scenario ends with B and C failed and D never run *)
Wit_C3 ==
    /\ Scenario_C3
    /\ pc = "done"
    /\ StatusFailures = {1, 2}
    /\ runs = [k \in Indexes |-> IF k = 3 THEN 0 ELSE 1]
    /\ endState = ESMaxFailures

(* C4: when a canary's Run returned an error, Run has returned with
   CanaryFailure: every earlier canary ran once and succeeded, the failed one
   ran once, no later canary and no bulk-phase Action was ever run. *)
Thm_C4 ==
    \A j \in CanaryIndexes :
        (Failed(j) /\ inRun[j] = 0) =>
            /\ pc = "done"
            /\ endState = ESCanaryFailure
            /\ ret = "err"
            /\ runs[j] = 1
            /\ \A k \in Indexes : k < j => runs[k] = 1 /\ ~ Failed(k) /\ inRun[k] = 0
            /\ \A k \in Indexes : k > j => runs[k] = 0 /\ inRun[k] = 0
            /\ Admitted = {}

(* C4 witness: the second of two canaries failed, with bulk Actions pending *)
Wit_C4 ==
    /\ config.CanaryNum = 2
    /\ NumActions = 4
    /\ Failed(1)
    /\ ~ Failed(0)
    /\ endState = ESCanaryFailure

(* C5: no Actions.Run is entered before checkLBState returned nil; when it
   returns an error, Run returns an error with PreconditionFailure and no
   Action was run. *)
Thm_C5 ==
    /\ []((pc \in {"start", "checkLB"} \/ endState = ESPreconditionFailure) =>
            /\ \A k \in Indexes : runs[k] = 0 /\ inRun[k] = 0 /\ ~ Failed(k)
            /\ Admitted = {})
    /\ [](endState = ESPreconditionFailure => pc = "done" /\ ret = "err")
    /\ [][pc = "checkLB" =>
            IF checkLBState(config.Backends, ph)
            THEN endState' = ESPreconditionFailure /\ pc' = "done"
            ELSE endState' = ESUnknown /\ pc' = "canary"]_vars

(* C5 witness: Run has returned with PreconditionFailure *)
Wit_C5 ==
    /\ endState = ESPreconditionFailure
    /\ pc = "done"
    /\ NumActions = 3

(* the backends of a PoolHealth answer and of the configuration, as sets *)
ReportedSet(h) == { h.backends[k].ip : k \in 1 .. Len(h.backends) }
ConfiguredSet == { config.Backends[k] : k \in 1 .. Len(config.Backends) }

(* C6 as stated: when PoolHealth reports FULL with a backend list whose set
   differs from the configured set, Run ends with PreconditionFailure. *)
CE_C6 ==
    [][(/\ pc = "checkLB"
        /\ ~ ph.err
        /\ ph.status = "PS_FULL"
        /\ ReportedSet(ph) # ConfiguredSet) =>
            (endState' = ESPreconditionFailure /\ pc' = "done")]_vars

(* C9: when the first bulk-phase Action is admitted, and ever after, every
   canary has run once and returned nil and every post-canary sleep is over;
   no canary is inside Run while a bulk-phase Action is. *)
Thm_C9 ==
    (pc \in {"bulk", "bulkCheck", "wait"} \/ Admitted # {}) =>
        /\ \A j \in CanaryIndexes : runs[j] = 1 /\ inRun[j] = 0 /\ ~ Failed(j)
        /\ slept = Cardinality(CanaryIndexes)
        /\ Admitted \subseteq BulkIndexes

(* C9 witness: two canaries are over and a bulk-phase Action is inside Run *)
Wit_C9 ==
    /\ Cardinality(CanaryIndexes) = 2
    /\ BulkInFlight # {}
    /\ slept = 2

(* C10: after the precondition and canary phases Run ends with
   MaxFailuresExceeded and an error iff the failure counter is greater than
   MaxFailures once every admitted Action has finished, else with Success and
   nil; with CanaryNum=0, MaxFailures=0 and one backend that fails it ends
   with MaxFailuresExceeded. *)
Thm_C10 ==
    (pc = "done" /\ endState \notin {ESPreconditionFailure, ESCanaryFailure}) =>
        /\ wg = 0
        /\ \A k \in Indexes : inRun[k] = 0
        /\ failures = Cardinality({ k \in BulkIndexes : Failed(k) })
        /\ IF failures > config.MaxFailures
           THEN endState = ESMaxFailures /\ ret = "err"
           ELSE endState = ESSuccess /\ ret = "nil"
        /\ (config.CanaryNum = 0 /\ config.MaxFailures = 0 /\ NumActions = 1
            /\ Failed(0)) => endState = ESMaxFailures

(* C10 witness: Run ends with Success although an Action failed *)
Wit_C10 ==
    /\ pc = "done"
    /\ endState = ESSuccess
    /\ failures = 1
    /\ config.MaxFailures = 1

----------------------------------------------------------------------------
(* Properties of Actions.Run *)

(* the first Run failed in WaitHealthy (reachable) and at most one more Run
   has been entered *)
FirstFailedWaitHealthy ==
    /\ Len(failLog) >= 1
    /\ failLog[1] = "reachable"
    /\ runNo <= 2

(* C7: when the first Run failed at WaitHealthy, RemoveFromPool, KillExisting,
   CopyBinary and StartBinary have each been invoked once, also after a second
   Run. *)
CE_C7 ==
    FirstFailedWaitHealthy =>
        /\ calls["rmBackend"] = 1
        /\ calls["jobKill"] = 1
        /\ calls["cp"] = 1
        /\ calls["jobStart"] = 1

(* C8: after a Run in which a stage handler returned an error, failedState is
   the stage that failed, failure() is its non-empty name, err is the error
   returned, and the next Run starts at that stage. *)
CE_C8 ==
    (apc = "idle" /\ Len(failLog) >= 1 /\ failLog[Len(failLog)] \in Stages) =>
        /\ act.failedState = failLog[Len(failLog)]
        /\ failure(act) # ""
        /\ act.err = lastRet
        /\ StartFn(act) = failLog[Len(failLog)]

----------------------------------------------------------------------------
(* Properties of Workflow.retryFailed *)

(* the step is a call of retryFailed *)
IsRetryCall == pc \in {"start", "done"} /\ pc' \in {"panic", "retry"}

(* the slots of the current retryFailed call whose goroutine has entered Run *)
RetryEntered ==
    { s \in Indexes : rworker[s] \in {"running", "retOk", "retErr", "doneOk", "doneErr"} }

(* C11: a call of retryFailed with an EndState other than Success panics; the
   step changes neither the failure counter nor any Action, no Run is entered
   by it, and nothing is re-run once it has panicked. *)
Thm_C11 ==
    [][ /\ (IsRetryCall /\ endState # ESSuccess) =>
            /\ pc' = "panic"
            /\ failures' = failures
            /\ actions' = actions
            /\ runs' = runs
            /\ inRun' = inRun
        /\ pc = "panic" =>
            /\ pc' = "panic"
            /\ failures' = failures
            /\ actions' = actions
            /\ runs' = runs ]_vars

(* C11 witness: retryFailed has panicked after a run that ended with
   MaxFailuresExceeded *)
Wit_C11 ==
    /\ pc = "panic"
    /\ endState = ESMaxFailures
    /\ failures > 0

(* C12: every goroutine of retryFailed runs the Action of its own iteration,
   so that each Action of ws.failures is run once and no index is out of
   range. *)
CE_C12 ==
    /\ pc # "crash"
    /\ \A s \in RetryEntered : rtarget[s] = s

(* C13: no Action has two Run invocations in progress at the same time, during
   Run and during any number of retryFailed calls. *)
CE_C13 == \A k \in Indexes : inRun[k] <= 1

(* the stages in the order of the StateFns' return values (actions.go:117-216) *)
StageOrder == <<"rmBackend", "jobKill", "cp", "jobStart", "reachable", "addBackend">>

(* the first n stages of StageOrder have been invoked once each and no other *)
InvokedPrefix(n) ==
    \A m \in 1 .. Len(StageOrder) :
        calls[StageOrder[m]] = IF m <= n THEN 1 ELSE 0

(* C14: all through a first Run the stages invoked are a prefix of
   RemoveFromPool, KillExisting, CopyBinary, StartBinary, WaitHealthy,
   AddToPool, each invoked once, a stage being invoked only after its
   predecessor returned without error; when the Run has returned nil all six
   have been invoked. *)
Thm_C14 ==
    runNo = 1 =>
        /\ \E n \in 0 .. Len(StageOrder) : InvokedPrefix(n)
        /\ (apc = "idle" /\ lastRet = Nil) => InvokedPrefix(Len(StageOrder))
        /\ failLog # <<>> => apc = "idle"

(* C14 witness: the first Run has returned nil *)
Wit_C14 ==
    /\ runNo = 1
    /\ apc = "idle"
    /\ failLog = <<Nil>>
    /\ InvokedPrefix(Len(StageOrder))

----------------------------------------------------------------------------
(* More properties of Workflow.Run *)

(* C15: with CanaryNum >= len(Backends) no goroutine of the bulk phase is ever
   started and every Run in progress is the canary loop's; when Run is over
   and neither the precondition nor a canary failed, every Action has run once
   without error and Run ended with Success and nil. *)
Thm_C15 ==
    config.CanaryNum >= NumActions =>
        /\ Admitted = {}
        /\ BulkIndexes = {}
        /\ \A k \in Indexes : inRun[k] > 0 => (pc = "canaryRun" /\ k = i)
        /\ failures = 0
        /\ (pc = "done" /\ endState \notin {ESPreconditionFailure, ESCanaryFailure}) =>
            /\ endState = ESSuccess
            /\ ret = "nil"
            /\ slept = NumActions
            /\ \A k \in Indexes : runs[k] = 1 /\ ~ Failed(k)
        /\ (pc = "done" /\ endState = ESCanaryFailure) =>
            \E k \in Indexes : Failed(k)

(* C15 witness: Run has ended with Success with two backends that were both
   canaries *)
Wit_C15 ==
    /\ pc = "done"
    /\ NumActions = 2
    /\ config.CanaryNum >= 2
    /\ endState = ESSuccess
    /\ \A k \in Indexes : runs[k] = 1

----------------------------------------------------------------------------
(* Properties of main and of Status() after RetryFailed *)

(* the Actions whose Run in the last retryFailed call returned an error *)
RetriedErr ==
    { ws[rtarget[s] + 1] : s \in { t \in Indexes : rworker[t] = "doneErr" } }

(* the last retryFailed call has returned to main and each of its goroutines
   ran the Action of its own iteration *)
RetryReturnedToMain ==
    /\ cpc = "retrying"
    /\ pc = "done"
    /\ retries = pass + 1
    /\ \A s \in RetryEntered : rtarget[s] = s

(* C16: the process exits with 0 only when no failed Action remains, and with
   1 when Run returned an error (precondition, canary, failure budget) or
   failed Actions remain after the retry passes. *)
CE_C16 ==
    /\ exitCode = 0 => StatusFailures = {}
    /\ (cpc = "exited" /\ endState \in {ESPreconditionFailure, ESCanaryFailure, ESMaxFailures})
          => exitCode = 1
    /\ (cpc = "exited" /\ pass = RetryPasses /\ StatusFailures # {}) => exitCode = 1

(* C20: when RetryFailed has returned, Status().Failures is the set of Actions
   whose retried Run returned an error, and main's loop goes into another pass
   only if some retried Run returned an error. *)
CE_C20 ==
    /\ RetryReturnedToMain => StatusFailures = RetriedErr
    /\ (cpc = "retryLoop" /\ pass >= 1 /\ \A s \in RetryEntered : rtarget[s] = s)
          => RetriedErr # {}

----------------------------------------------------------------------------
(* Properties of Config.Validate *)

(* the address is an IP literal and a decimal port in [MinPort, MaxPort] *)
ValidAddr(b) ==
    /\ b.split
    /\ b.host \in {"ip4", "ip6"}
    /\ b.port.num
    /\ b.port.val >= MinPort
    /\ b.port.val <= MaxPort

(* every address of the configuration is valid *)
AllValid(s) ==
    /\ ValidAddr(s.LB)
    /\ \A n \in 1 .. Len(s.Backends) : ValidAddr(s.Backends[n])

(* C17: Validate returns an error whenever LB or a Backend is not an IP
   literal with a decimal port in [1,65534]; it returns nil only for
   configurations whose addresses all are. *)
CE_C17 ==
    /\ vout = Nil => AllValid(vin)
    /\ (vout # "none" /\ ~ AllValid(vin)) => vout = Err

----------------------------------------------------------------------------
(* Properties of Actions.Run under an expired context *)

(* the last Run ended at the test of ctx.Err() at the top of the loop *)
StoppedByCtx ==
    /\ apc = "idle"
    /\ Len(failLog) >= 1
    /\ failLog[Len(failLog)] = "ctx"

(* C18: when Run stopped at the test of ctx, err is the context's error,
   failedState is the StateFn that was about to be called (still held in fn)
   and the next Run starts there. *)
CE_C18 ==
    StoppedByCtx =>
        /\ act.err = CtxErr
        /\ lastRet = CtxErr
        /\ act.failedState = fn
        /\ StartFn(act) = fn

(* C19: with the context done at the point before a stage is invoked (the top
   of the loop for a StateFn, line 163 of jobStart for reachable), no stage is
   entered and Run returns the context's error. *)
CE_C19 ==
    [][ (ctxDone /\ apc \in {"loop", "reachable"}) =>
            /\ calls' = calls
            /\ apc' = "idle"
            /\ lastRet' = CtxErr ]_vars

----------------------------------------------------------------------------
(* Properties of the failure counter across retryFailed passes *)

(* C21: when a retryFailed pass has returned to main, the failure counter is
   not negative and is the number of Actions whose Run in that pass (their
   most recent one) returned an error; the Actions outside ws.failures never
   failed. *)
CE_C21 ==
    RetryReturnedToMain =>
        /\ failures >= 0
        /\ failures = Cardinality(RetriedErr)

----------------------------------------------------------------------------
(* More properties of the canary and precondition phases of Workflow.Run *)

(* min(CanaryNum, len(Backends)) *)
NumCanaries == IF config.CanaryNum < NumActions THEN config.CanaryNum ELSE NumActions

(* C22: in the canary phase the Actions before i have each run once and
   returned nil, those after i have not run, Action i is the only one that can
   be inside Run, i is below min(CanaryNum, len(Backends)) while a canary
   runs, and the phase is left for the bulk phase at i = min(CanaryNum,
   len(Backends)). *)
Thm_C22 ==
    /\ pc \in {"canary", "canaryRun", "canarySleep"} =>
        /\ i <= NumCanaries
        /\ \A k \in Indexes : k < i => (runs[k] = 1 /\ inRun[k] = 0 /\ ~ Failed(k))
        /\ \A k \in Indexes : k > i => (runs[k] = 0 /\ inRun[k] = 0)
        /\ Admitted = {}
        /\ slept = i
    /\ pc = "canaryRun" => (i < NumCanaries /\ runs[i] = 1 /\ inRun[i] = 1)
    /\ pc = "canarySleep" => (i < NumCanaries /\ runs[i] = 1 /\ inRun[i] = 0 /\ ~ Failed(i))
    /\ (pc = "canary" /\ i \in Indexes) => runs[i] = 0
    /\ (pc = "canary" /\ ~ CanaryCond) => i = NumCanaries
    /\ pc \in {"bulk", "bulkCheck", "wait"} =>
        \A k \in Indexes : k < NumCanaries => (runs[k] = 1 /\ inRun[k] = 0 /\ ~ Failed(k))

(* C22 witness: the second canary is inside Run after the first returned nil *)
Wit_C22 ==
    /\ pc = "canaryRun"
    /\ i = 1
    /\ runs[0] = 1
    /\ ~ Failed(0)
    /\ inRun[1] = 1

(* PoolHealth returned an error or a status other than FULL *)
NotFull(h) == h.err \/ h.status # "PS_FULL"

(* C23: with a non-empty Backends list, when PoolHealth returned an error, the
   status EMPTY or any status other than FULL, checkLBState's return ends Run
   with PreconditionFailure and an error, and no Action has run or runs. *)
Thm_C23 ==
    [][ (pc = "checkLB" /\ NumActions >= 1 /\ NotFull(ph)) =>
            /\ endState' = ESPreconditionFailure
            /\ ret' = "err"
            /\ pc' = "done"
            /\ \A k \in Indexes : runs'[k] = 0 /\ inRun'[k] = 0
            /\ Admitted' = {} ]_vars

(* C23 witness: PoolHealth has reported the pool EMPTY to a workflow with two
   configured backends *)
Wit_C23 ==
    /\ pc = "checkLB"
    /\ NumActions = 2
    /\ ~ ph.err
    /\ ph.status = "PS_EMPTY"

----------------------------------------------------------------------------
(* More properties of the bulk phase of Workflow.Run *)

(* bulk-phase Actions whose goroutine has been started and has not yet passed
   the point where a failure is counted *)
Uncounted == { k \in Indexes : worker[k] \in {"spawned", "running", "failed"} }

(* C24: the failure counter never exceeds MaxFailures + Concurrency; while the
   admission loop runs, the counter plus the goroutines that may still add to
   it stays within that bound, each of them holding a slot of limit. *)
Thm_C24 ==
    /\ failures <= config.MaxFailures + config.Concurrency
    /\ Cardinality(Uncounted) <= config.Concurrency
    /\ (pc = "done" /\ endState \in {ESSuccess, ESMaxFailures}) =>
          /\ Uncounted = {}
          /\ failures = Cardinality({ k \in BulkIndexes : Failed(k) })

(* C24 witness: Run has returned with the counter at MaxFailures + Concurrency
   and Actions left that were never admitted *)
Wit_C24 ==
    /\ pc = "done"
    /\ endState = ESMaxFailures
    /\ failures = config.MaxFailures + config.Concurrency
    /\ config.Concurrency = 2
    /\ \E k \in Indexes : runs[k] = 0

----------------------------------------------------------------------------
(* Properties of Actions.jobKill *)

(* C25: when the first lookup found a running process, SIGTERM is the first
   signal sent; SIGKILL is sent only after the first waitForDeath ended
   without a lookup that showed the process gone; jobKill returns a.cp iff a
   lookup of the first or of the second wait showed it gone, and an error when
   the second wait ended without that. *)
Thm_C25 ==
    /\ ksigs \in {<<>>, <<SIGTERM>>, <<SIGTERM, SIGKILL>>}
    /\ ksigs # <<>> => kseen \notin {"none", "nopid", "missing"}
    /\ Len(ksigs) = 2 => kseen \in {"alive1", "dead2", "alive2", "broken"}
    /\ kseen = "dead1" => ksigs = <<SIGTERM>>
    /\ kseen = "dead2" => ksigs = <<SIGTERM, SIGKILL>>
    /\ (kpc = "done" /\ ksigs # <<>>) =>
          (kret = "cp" <=> kseen \in {"dead1", "dead2"})
    /\ kseen \in {"dead1", "dead2"} => (kpc = "done" /\ kret = "cp")
    /\ kseen = "alive2" => (kpc = "done" /\ kret = "err")
    /\ kpc \in {"kill", "wait2", "poll2"} => kseen = "alive1"

(* C25 witness: the process was seen gone in the second wait, after SIGTERM
   and SIGKILL *)
Wit_C25 ==
    /\ kpc = "done"
    /\ kret = "cp"
    /\ kseen = "dead2"
    /\ ksigs = <<SIGTERM, SIGKILL>>

(* C26: when the first lookup finds no PID, jobKill sends no signal and
   returns a.cp; the lookup ends jobKill otherwise only when the lookup tool
   is missing (exit status 127), and then with an error. *)
CE_C26 ==
    (kpc = "done" /\ ksigs = <<>>) =>
        /\ kseen = "nopid" => kret = "cp"
        /\ kret # "cp" => (kseen = "missing" /\ kret = "err")

----------------------------------------------------------------------------
(* Properties of Actions.reachable *)

(* the body is "ok" between white space *)
IsOk(o) ==
    /\ o.kind = "body"
    /\ \E m \in 1 .. Len(o.body) :
        /\ m < Len(o.body)
        /\ o.body[m] = "o"
        /\ o.body[m + 1] = "k"
        /\ \A n \in 1 .. Len(o.body) :
              n \notin {m, m + 1} => o.body[n] \in Space

(* C27: reachable returns a.addBackend iff a request made before its ctx was
   done brought a body that is "ok" between white space; a failed request, a
   failed read or another body sends the loop to its next pass without ending
   reachable; with the ctx done at the top of the loop reachable returns an
   error. *)
Thm_C27 ==
    [][ /\ (hpc = "poll" /\ IsOk(hlast')) =>
              (~ hctx /\ hret' = "addBackend" /\ hpc' = "done")
        /\ (hpc = "poll" /\ hpolls' # hpolls /\ ~ IsOk(hlast')) =>
              (hret' = "none" /\ hpc' = "top")
        /\ (hret = "none" /\ hret' = "addBackend") =>
              (hpc = "poll" /\ ~ hctx /\ IsOk(hlast'))
        /\ (hpc = "top" /\ hctx) => (hret' = "err" /\ hpc' = "done")
        /\ (hret = "none" /\ hret' = "err") =>
              ((hpc = "top" /\ hctx) \/ hpc = "idle") ]_vars

(* C27 witness: reachable has returned a.addBackend on a body with white space
   around "ok", after an earlier pass of the loop that did not end it *)
Wit_C27 ==
    /\ hpc = "done"
    /\ hret = "addBackend"
    /\ hlast = Outcome("body", <<" ", "o", "k", "\n">>)
    /\ hpolls >= 2

----------------------------------------------------------------------------
(* Termination of Workflow.Run *)

(* C28: with Concurrency >= 1, PoolHealth and every Action.Run returning,
   Workflow.Run returns with an EndState other than ESUnknown; the send on
   limit at the head of the admission loop does not block for ever, neither
   does wg.Wait(). *)
Thm_C28 ==
    /\ <>(pc = "done" /\ endState # ESUnknown /\ ret # "none")
    /\ [](pc = "bulk" => <>(pc # "bulk"))
    /\ [](pc = "wait" => <>(pc = "done"))

(* C28 witness: Run has returned ESMaxFailures after leaving the admission
   loop on the budget test, with an Action never admitted and the slot of the
   last send still in limit *)
Wit_C28 ==
    /\ pc = "done"
    /\ endState = ESMaxFailures
    /\ \E k \in Indexes : k >= NumCanaries /\ worker[k] = "none"
    /\ \A k \in Indexes : worker[k] \in {"none", "exited"}
    /\ limit = 1

----------------------------------------------------------------------------
(* The health check before a backend goes back into the pool *)

(* C29: over any sequence of Runs of one Action, addBackend is invoked only
   when reachable has returned without error since the last invocation of
   jobStart. *)
Thm_C29 ==
    [][calls'["addBackend"] # calls["addBackend"] =>
          /\ healthy
          /\ calls["reachable"] >= 1
          /\ calls["jobStart"] >= 1]_vars

(* C29 witness: addBackend is invoked in a Run after the first, which started
   the binary again and saw it healthy again *)
Wit_C29 ==
    /\ runNo >= 2
    /\ calls["addBackend"] >= 1
    /\ calls["jobStart"] >= 2
    /\ calls["reachable"] >= 2
    /\ failLog # <<>>
    /\ failLog[1] # Nil
    /\ healthy

----------------------------------------------------------------------------
(* The final EndState and the Actions in flight *)

(* has returned from its one Run in the bulk phase *)
Returned(k) == runs[k] = 1 /\ inRun[k] = 0 /\ worker[k] \notin {"spawned", "running"}

(* C30: ESMaxFailures or ESSuccess is assigned only in a state in which every
   admitted bulk-phase Action has returned from Run, and Workflow.Run has not
   returned while an Action is inside Run. *)
Thm_C30 ==
    /\ [][(endState' # endState /\ endState' \in {ESMaxFailures, ESSuccess}) =>
              /\ pc = "wait"
              /\ wg = 0
              /\ \A k \in Admitted : Returned(k)
              /\ BulkInFlight = {}]_vars
    /\ [](ret # "none" => \A k \in Indexes : inRun[k] = 0)

(* C30 witness: ESMaxFailures has been assigned after two admitted Actions
   returned, the second of them after the budget was exceeded *)
Wit_C30 ==
    /\ pc = "done"
    /\ endState = ESMaxFailures
    /\ config.MaxFailures = 0
    /\ Cardinality(Admitted) >= 2
    /\ \A k \in Admitted : Returned(k)
    /\ Cardinality({ k \in Admitted : Failed(k) }) >= 2

----------------------------------------------------------------------------
(* The failure counter and status() after the bulk phase *)

(* C31: when Run on a new workflow has returned after the bulk phase, the
   failure counter is the number of bulk-phase Actions with a non-nil err and
   the length of the failures of status(); no canary Action is among them. *)
Thm_C31 ==
    (pc = "done" /\ endState \in {ESSuccess, ESMaxFailures}) =>
        /\ failures = Cardinality({ k \in BulkIndexes : actions[k].err # Nil })
        /\ failures = Len(StatusSeq)
        /\ \A n \in 1 .. Len(StatusSeq) : StatusSeq[n] \in BulkIndexes
        /\ \A k \in CanaryIndexes : actions[k].err = Nil /\ worker[k] = "none"

(* C31 witness: Run has returned Success after a canary and two bulk-phase
   Actions, one of which failed *)
Wit_C31 ==
    /\ pc = "done"
    /\ endState = ESSuccess
    /\ CanaryIndexes # {}
    /\ Cardinality(BulkIndexes) >= 2
    /\ failures = 1
    /\ Len(StatusSeq) = 1

----------------------------------------------------------------------------
(* The assignments of EndState *)

(* C32: EndState is ESUnknown until Run returns; Run assigns it once, from
   ESUnknown, one of the four other values, as it returns; nothing changes it
   afterwards, retryFailed included. *)
Thm_C32 ==
    /\ [][endState' # endState =>
              /\ endState = ESUnknown
              /\ ret = "none"
              /\ ret' # "none"
              /\ pc' = "done"
              /\ endState' \in {ESPreconditionFailure, ESCanaryFailure,
                                ESMaxFailures, ESSuccess}]_vars
    /\ [](ret = "none" <=> endState = ESUnknown)

(* C32 witness: a pass of retryFailed has ended with failures left and
   EndState is still ESSuccess *)
Wit_C32 ==
    /\ retries >= 1
    /\ pc = "done"
    /\ endState = ESSuccess
    /\ StatusFailures # {}

----------------------------------------------------------------------------
(* Properties of workflow.New *)

(* C33: New returns a Workflow with one Action per configured backend, in the
   configured order, and whenever an address of Backends is not an IP literal
   with a decimal port in [1,65534] it returns an error and no Workflow. *)
CE_C33 ==
    /\ nret = "wf" =>
          /\ Len(nacts) = Len(nin)
          /\ \A n \in 1 .. Len(nin) : nacts[n].endpoint = nin[n]
    /\ (npc = "done" /\ \E n \in 1 .. Len(nin) : ~ ValidAddr(nin[n])) =>
          nret = "err"

----------------------------------------------------------------------------
(* Properties of Workflow.Run on a configuration Validate accepted *)

(* C34: a configuration Validate accepts has Concurrency >= 1, CanaryNum >= 0,
   MaxFailures >= 0, a Pattern that is not blank and at least one backend; Run
   on it does not start the bulk loop at a negative index and does not end
   with ESMaxFailures when no Action failed. *)
CE_C34 ==
    /\ vout = Nil =>
          /\ vin.Concurrency >= 1
          /\ vin.CanaryNum >= 0
          /\ vin.MaxFailures >= 0
          /\ ~ vin.PatternBlank
          /\ Len(vin.Backends) >= 1
    /\ pc \in {"bulk", "bulkCheck"} => i >= 0
    /\ pc # "crash"
    /\ (endState = ESMaxFailures /\ failures = 0) => FALSE

----------------------------------------------------------------------------
(* The retry passes of main *)

(* the step is a call of RetryFailed *)
CallsRetryFailed == pc = "done" /\ pc' \in {"retry", "panic"}

(* C35: main calls RetryFailed only after a Run that returned nil and left
   failures in Status(), only while failures remain and fewer than 3 passes
   were made; after a Run that returned an error it never calls it. *)
Thm_C35 ==
    /\ [][CallsRetryFailed =>
              /\ ret = "nil"
              /\ endState = ESSuccess
              /\ StatusFailures # {}
              /\ pass < RetryPasses
              /\ retries = pass]_vars
    /\ [](retries <= RetryPasses /\ pass <= RetryPasses)
    /\ [](ret = "err" => (retries = 0 /\ pass = 0
                          /\ cpc \notin {"retryLoop", "retrying", "afterLoop"}))
    /\ []((pc = "done" /\ StatusFailures = {}) =>
              cpc \notin {"retryLoop", "retrying"})

(* C35 witness: main has exited after three passes of RetryFailed with
   failures left *)
Wit_C35 ==
    /\ cpc = "exited"
    /\ pass = RetryPasses
    /\ retries = RetryPasses
    /\ ret = "nil"
    /\ StatusFailures # {}

----------------------------------------------------------------------------
(* Every Action runs once in a Run that ends with Success *)

(* C36: when Run has ended with ESSuccess, the Run of every Action, canary or
   bulk-phase, has been entered once and has returned; during Run no Action's
   Run is entered a second time. *)
Thm_C36 ==
    /\ \A k \in Indexes : runs[k] <= 1
    /\ endState = ESSuccess =>
          /\ pc = "done"
          /\ \A k \in Indexes : runs[k] = 1 /\ inRun[k] = 0
          /\ Admitted = BulkIndexes
          /\ slept = Cardinality(CanaryIndexes)

(* C36 witness: Run has ended with Success over canaries and several
   bulk-phase Actions, one of them failed within the budget *)
Wit_C36 ==
    /\ endState = ESSuccess
    /\ Cardinality(CanaryIndexes) >= 1
    /\ Cardinality(BulkIndexes) >= 3
    /\ \E k \in BulkIndexes : Failed(k)
    /\ \A k \in Indexes : runs[k] = 1

====
